---- MODULE Spec2Model ----
(***************************************************************************)
(* Model of the MPI assessment pipeline of Dialog-Orchestrator:            *)
(*   - MPIHTTPRunner.run_assessment          (src/eval/run_mpi_http.py)    *)
(*   - MPIResultsAggregator                  (src/eval/mpi_aggregator.py)  *)
(*   - score_item / scan_run_files           (src/experiments/summarize.py)*)
(*   - the per-combination row of main       (src/experiments/run_all.py)  *)
(*   - main and its helpers                  (src/experiments/run_all.py)  *)
(*                                                                         *)
(* Nine specifications share the module:                                  *)
(*   Spec      the Runner driving one inventory through the endpoint;      *)
(*   FairSpec  Spec with the sequential loop's progress as fairness;       *)
(*   AggSpec   one persisted run record going through the Aggregator, the  *)
(*             Orchestrator's row and the Summary Scanner;                 *)
(*   StatSpec  one call of compare_with_persona, compute_leakage or        *)
(*             linear_fit on drawn arguments;                              *)
(*   ReuseSpec one aggregator instance loading and aggregating artifacts;  *)
(*   OrchSpec  repeated executions of main over the runs directory;        *)
(*   TableSpec executions of main and of the Summary Scanner in turn;      *)
(*   CheckSpec the validation command (src/experiments/checks.py) on a     *)
(*             runs directory, and FairCheckSpec with its progress.        *)
(*                                                                         *)
(* Floats are fixed point: an integer number of 1/Scale units, or NaN.     *)
(***************************************************************************)
EXTENDS Integers, Sequences, FiniteSets, TLC

\* ------------------------------------------------------------------ bounds
\* longest inventory handed to run_assessment
MaxItems == 2
\* longest results list of a persisted run record
MaxResults == 2

\* ------------------------------------------------------------- numerics
\* resolution of the fixed-point floats
Scale == 10 * 10 * 10

NaN == [nan |-> TRUE, v |-> 0]
Num(x) == [nan |-> FALSE, v |-> x]
\* a / b as a float (true division of two ints), b # 0
Div(a, b) == Num((a * Scale) \div b)

RECURSIVE SumSeq(_)
SumSeq(s) == IF s = << >> THEN 0 ELSE Head(s) + SumSeq(Tail(s))

RECURSIVE SumSq(_)
SumSq(s) == IF s = << >> THEN 0 ELSE Head(s) * Head(s) + SumSq(Tail(s))

RECURSIVE MinSeq(_)
MinSeq(s) == IF Len(s) = 1 THEN Head(s)
             ELSE LET m == MinSeq(Tail(s)) IN IF Head(s) < m THEN Head(s) ELSE m

RECURSIVE MaxSeq(_)
MaxSeq(s) == IF Len(s) = 1 THEN Head(s)
             ELSE LET m == MaxSeq(Tail(s)) IN IF Head(s) > m THEN Head(s) ELSE m

\* floor of the square root of n >= 0, by bisection on lo..hi
RECURSIVE ISqrtIn(_, _, _)
ISqrtIn(n, lo, hi) ==
    IF lo >= hi THEN lo
    ELSE LET mid == (lo + hi + 1) \div 2
         IN IF mid * mid <= n THEN ISqrtIn(n, mid, hi) ELSE ISqrtIn(n, lo, mid - 1)

ISqrt(n) == ISqrtIn(n, 0, IF n < 46340 THEN n ELSE 46340)

\* insertion of x into the sorted sequence s, and sorted(s)
RECURSIVE Insert(_, _)
Insert(x, s) ==
    IF s = << >> THEN << x >>
    ELSE IF x <= Head(s) THEN << x >> \o s
    ELSE << Head(s) >> \o Insert(x, Tail(s))

RECURSIVE Sorted(_)
Sorted(s) == IF s = << >> THEN << >> ELSE Insert(Head(s), Sorted(Tail(s)))

\* Python None for an optional value, and a present value
None == << >>
Some(x) == << x >>

\* ------------------------------------------------------------ the Runner
VARIABLES
    inventory,      \* the list the caller passed as `items`
    item_order_seed, \* the item-order-seed argument (None: not given)
    items,          \* items_to_process: the inventory in processing order
    retry_unk,      \* the retry-on-unknown flag
    pc,             \* "start": run_assessment entered; "loop": at the head
                    \* of the item loop; "post": about to issue the request
                    \* of `attempt`; "done": returned
    i,              \* 1-based index of the current item
    attempt,        \* loop variable of the attempt loop
    attempts,       \* the local counter written to the result entry
    success,        \* the local success flag
    results,        \* the results list of the artifact
    stats,          \* the statistics dict
    metadata,       \* None until run_assessment returns
    requests,       \* history: requests issued per item (session.post calls)
    first_outcome,  \* history: per item, the kind of its first request's
                    \* outcome ("none" before it)
    visited         \* history: item indices in the order the loop took them

runnerVars == << inventory, item_order_seed, items, retry_unk, pc, i, attempt, attempts, success, results,
                 stats, metadata, requests, first_outcome, visited >>

\* --------------------------------- one run record through the offline path
VARIABLES
    results_data,   \* the persisted run record: its results list
    aggregated,     \* MPIResultsAggregator.aggregated of the Orchestrator's
                    \* aggregator instance (None before aggregate_traits)
    orch_pc,        \* the Orchestrator on this combination: "run_done",
                    \* "reported", "row_written", "crashed"
    orch_row,       \* the row main appended to summary.csv (None before)
    scan_entry      \* the entry scan_run_files built for the file (None before)

aggVars == << results_data, aggregated, orch_pc, orch_row, scan_entry >>

\* ------------------------------ one call of a statistical helper function
VARIABLES
    call_fn,        \* the function called: "compare_with_persona",
                    \* "compute_leakage", "linear_fit" ("idle": none)
    call_args,      \* its arguments (and, for a method, the fields of self
                    \* it reads)
    call_ret        \* what the call did: None before it, then a record with
                    \* raises = TRUE, or raises = FALSE and the value

statVars == << call_fn, call_args, call_ret >>

\* ------------------------ the Orchestrator's matrix on the runs directory
VARIABLES
    main_pc,        \* position of main: "closed" (no execution running),
                    \* "configure", "update", "read", "run", "aggregate",
                    \* "row", "sensitivity";
                    \* ended executions: "finished", "crashed", "killed"
    execution,      \* number of executions of main started so far
    cond_i,         \* index into ordered_conditions of the loop variable cond
    seed_i,         \* index into SEEDS of the loop variable seed
    order_i,        \* index into ORDER_SEEDS of the loop variable order_seed
    baselines,      \* the baselines dict of this execution: key -> means
    run_files,      \* runs/<cond>/<tag>.json on disk: tag -> content, for
                    \* the files that exist
    summary_csv,    \* runs/summary.csv on disk: whether it exists, and its
                    \* lines
    fh_buffer,      \* lines written to fh and not yet flushed
    rows_at_open,   \* history: lines of summary.csv when this execution
                    \* opened it
    base_found,     \* history: per combination of this execution that looked
                    \* its baseline up, whether baselines.get(key) was truthy
    failed,         \* history: the combinations of this execution whose run,
                    \* aggregation or report failed
    store,          \* the persona store as get_persona reads it: user_id ->
                    \* the five trait values, for the personas that exist
    persona,        \* the vector get_persona returned for cond (None before)
    trait_i,        \* index into the traits of conf of set_persona's loop
    persona_log,    \* history: the persona requests of this condition that
                    \* completed, in order
    rejected        \* history: whether the store answered a create or update
                    \* request of this condition with an error status

\* the persona configuration of main
personaVars == << store, persona, trait_i, persona_log, rejected >>

matrixVars == << main_pc, execution, cond_i, seed_i, order_i, baselines,
                 run_files, summary_csv, fh_buffer, rows_at_open, base_found,
                 failed, personaVars >>

\* -------------------------------- one aggregator instance used repeatedly
VARIABLES
    loaded,         \* self.results_data of the instance: None, or Some of the
                    \* results list of the artifact load_results read
    agg_log         \* history: per aggregate_traits call, the artifact the
                    \* caller aggregated and the trait_summary returned

instVars == << loaded, agg_log >>

\* ------------------------------- the validation command on a runs directory
VARIABLES
    runs_dir,       \* what the command finds: whether runs/ exists, the
                    \* summary table (None: no summary.csv) and the
                    \* sensitivity artifact (None: no file)
    check_pc,       \* position of main: "start", "gates", "verdict",
                    \* "exited" ("idle": not run)
    check_i,        \* index into checks of the loop of main
    check_data,     \* data: the rows load_summary_csv returned
    reported,       \* the gate results printed so far, in order
    failed_checks,  \* the failed_checks list
    exit_code       \* the exit status of the process (None while it runs)

checkVars == << runs_dir, check_pc, check_i, check_data, reported,
                failed_checks, exit_code >>

\* what an action of one component leaves alone in the others
offRunnerVars == << aggVars, statVars, matrixVars, instVars, checkVars >>
offAggVars == << runnerVars, statVars, matrixVars, instVars, checkVars >>

\* rows of the inventory table the model draws inventories from
InventoryRows ==
    { [text |-> "",  label_ocean |-> "E", key |-> 1],
      [text |-> "t", label_ocean |-> "E", key |-> 1],
      [text |-> "t", label_ocean |-> "O", key |-> -1] }

RECURSIVE SeqsUpTo(_, _)
SeqsUpTo(S, n) ==
    IF n = 0 THEN { << >> }
    ELSE LET shorter == SeqsUpTo(S, n - 1)
         IN shorter \cup { Append(s, x) : s \in { t \in shorter : Len(t) = n - 1 }, x \in S }

\* what one session.post can end in: an exception (timeout, connection
\* error, bad JSON), a non-200 status, a non-success envelope, or a success
\* envelope carrying parsed_choice and response
Failures ==
    { [kind |-> k, parsed_choice |-> "", response |-> ""] :
        k \in {"exception", "http_error", "api_error"} }

SuccessEnvelopes ==
    { [kind |-> "success", parsed_choice |-> "A",   response |-> "A"],
      [kind |-> "success", parsed_choice |-> "E",   response |-> "E"],
      [kind |-> "success", parsed_choice |-> "UNK", response |-> "maybe"],
      [kind |-> "success", parsed_choice |-> "F",   response |-> "F"] }

Outcomes == Failures \cup SuccessEnvelopes

\* kind of an outcome as the history records it
OutcomeTag(o) ==
    IF o.kind = "success"
    THEN (IF o.parsed_choice = "UNK" THEN "success_unk" ELSE "success_other")
    ELSE o.kind

\* mutant of LastAttempt: the range's end off by one, range(1, 4 if retry_unk else 3)
LastAttemptOffByOne(retry) == IF retry THEN 3 ELSE 2

\* range(1, 3 if retry_unk else 2): the last value of `attempt`
LastAttempt(retry) == IF retry THEN 2 ELSE 1

\* if parsed_choice == 'UNK' and retry_unk and attempt == 1
ShouldRetryUnk(choice, retry, att) == choice = "UNK" /\ retry /\ att = 1

\* stats = {...}
InitStats(n) ==
    [total_items |-> n, successful |-> 0, unknown |-> 0, retried |-> 0, errors |-> 0]

\* the item-order-seed arguments drawn: none, the Orchestrator's 7, and 1
OrderSeedInputs == { None, Some(7), Some(1) }

\* random.seed(s); random.shuffle(list(range(1, n + 1))) of CPython's
\* generator, for the seeds drawn: per seed, the outcome for n = 0, 1, 2, 3, 4
ShuffleOrder ==
    (7 :> << << >>, << 1 >>, << 1, 2 >>, << 3, 1, 2 >>, << 4, 2, 1, 3 >> >>) @@
    (1 :> << << >>, << 1 >>, << 2, 1 >>, << 2, 3, 1 >>, << 4, 1, 3, 2 >> >>)

\* random.seed(seed); random.shuffle(s)
Shuffled(s, seed) ==
    [k \in 1..Len(s) |-> s[ShuffleOrder[seed][Len(s) + 1][k]]]

\* mutant of ItemsToProcess: the shuffle is skipped
ItemsToProcessSeedIgnored(inv, seed) == inv

\* items_to_process = items.copy(); shuffled if item_order_seed is not None
ItemsToProcess(inv, seed) ==
    IF seed = None THEN inv ELSE Shuffled(inv, seed[1])

\* run_assessment is entered with the caller's arguments
RunnerInit ==
    /\ inventory \in SeqsUpTo(InventoryRows, MaxItems)
    /\ item_order_seed \in OrderSeedInputs
    /\ items = << >>
    /\ retry_unk \in BOOLEAN
    /\ pc = "start"
    /\ i = 1
    /\ attempt = 1
    /\ attempts = 1
    /\ success = FALSE
    /\ results = << >>
    /\ stats = InitStats(0)
    /\ metadata = None
    /\ requests = << >>
    /\ first_outcome = << >>
    /\ visited = << >>

\* the statements before the item loop: the copy of the inventory, its
\* seeded shuffle, results = [], the statistics dict
Begin ==
    /\ pc = "start"
    /\ items' = ItemsToProcess(inventory, item_order_seed)
    /\ stats' = InitStats(Len(items'))
    /\ requests' = [k \in 1..Len(items') |-> 0]
    /\ first_outcome' = [k \in 1..Len(items') |-> "none"]
    /\ results' = << >>
    /\ pc' = "loop"
    /\ UNCHANGED << inventory, item_order_seed, retry_unk, i, attempt, attempts,
                    success, metadata, visited >>
    /\ UNCHANGED offRunnerVars

\* for i, item in enumerate(...): an item without text is counted as an
\* error and skipped
ItemSkipEmpty ==
    /\ pc = "loop"
    /\ i <= Len(items)
    /\ items[i].text = ""
    /\ stats' = [stats EXCEPT !.errors = @ + 1]
    /\ i' = i + 1
    /\ visited' = Append(visited, i)
    /\ UNCHANGED << inventory, item_order_seed, items, retry_unk, pc, attempt, attempts, success, results,
                    metadata, requests, first_outcome >>
    /\ UNCHANGED offRunnerVars

\* an item with text: build the payload, success = False, attempts = 1,
\* enter the attempt loop
ItemBegin ==
    /\ pc = "loop"
    /\ i <= Len(items)
    /\ items[i].text # ""
    /\ success' = FALSE
    /\ attempts' = 1
    /\ attempt' = 1
    /\ pc' = "post"
    /\ visited' = Append(visited, i)
    /\ UNCHANGED << inventory, item_order_seed, items, retry_unk, i, results, stats, metadata, requests,
                    first_outcome >>
    /\ UNCHANGED offRunnerVars

\* the request of this step is issued: session.post(...)
Issue(o) ==
    /\ requests' = [requests EXCEPT ![i] = @ + 1]
    /\ first_outcome' = IF attempt = 1
                        THEN [first_outcome EXCEPT ![i] = OutcomeTag(o)]
                        ELSE first_outcome

\* the attempt loop after an iteration that neither broke nor continued:
\* the next value of range(...), or the next item when the range is used up
AfterFailure ==
    IF attempt < LastAttempt(retry_unk)
    THEN /\ attempt' = attempt + 1
         /\ UNCHANGED << pc, i >>
    ELSE /\ pc' = "loop"
         /\ i' = i + 1
         /\ UNCHANGED attempt

\* mutant of PostFailure: the failure is not caught and leaves run_assessment
PostFailureAborts ==
    /\ pc = "post"
    /\ \E o \in Failures : Issue(o)
    /\ pc' = "aborted"
    /\ UNCHANGED << inventory, item_order_seed, items, retry_unk, i, attempt, attempts, success, results,
                    stats, metadata, visited >>
    /\ UNCHANGED offRunnerVars

\* the request raises, returns a non-200 status or a non-success envelope
PostFailure ==
    /\ pc = "post"
    /\ \E o \in Failures :
        /\ Issue(o)
        /\ stats' = [stats EXCEPT !.errors = @ + 1]
        /\ AfterFailure
    /\ UNCHANGED << inventory, item_order_seed, items, retry_unk, attempts, success, results, metadata, visited >>
    /\ UNCHANGED offRunnerVars

\* a success envelope whose parsed choice is UNK, on the first attempt with
\* retry enabled: count the retry and continue with the second attempt
PostRetryUnk ==
    /\ pc = "post"
    /\ \E o \in SuccessEnvelopes :
        /\ ShouldRetryUnk(o.parsed_choice, retry_unk, attempt)
        /\ Issue(o)
    /\ stats' = [stats EXCEPT !.retried = @ + 1]
    /\ attempts' = attempts + 1
    /\ attempt' = attempt + 1
    /\ UNCHANGED << inventory, item_order_seed, items, retry_unk, pc, i, success, results, metadata, visited >>
    /\ UNCHANGED offRunnerVars

\* result_entry = {...}
ResultEntry(item, idx, o, att) ==
    [item_index |-> idx - 1,
     label_ocean |-> item.label_ocean,
     key |-> item.key,
     response |-> o.response,
     parsed_choice |-> o.parsed_choice,
     attempts |-> att]

\* if parsed_choice == 'UNK': stats["unknown"] += 1 else stats["successful"] += 1
CountChoice(st, choice) ==
    IF choice = "UNK"
    THEN [st EXCEPT !.unknown = @ + 1]
    ELSE [st EXCEPT !.successful = @ + 1]

\* any other success envelope: record the result entry, count it, break
PostRecord ==
    /\ pc = "post"
    /\ \E o \in SuccessEnvelopes :
        /\ ~ShouldRetryUnk(o.parsed_choice, retry_unk, attempt)
        /\ Issue(o)
        /\ results' = Append(results, ResultEntry(items[i], i, o, attempts))
        /\ stats' = CountChoice(stats, o.parsed_choice)
    /\ success' = TRUE
    /\ pc' = "loop"
    /\ i' = i + 1
    /\ UNCHANGED << inventory, item_order_seed, items, retry_unk, attempt, attempts, metadata, visited >>
    /\ UNCHANGED offRunnerVars

\* "completion_rate": successful / total_items if total_items > 0 else 0
RunnerCompletionRate(st) ==
    IF st.total_items > 0 THEN Div(st.successful, st.total_items) ELSE Num(0)

\* the loop is over: build the metadata and return the artifact
Finish ==
    /\ pc = "loop"
    /\ i > Len(items)
    /\ metadata' = Some([statistics |-> stats,
                         completion_rate |-> RunnerCompletionRate(stats),
                         items_processed |-> Len(items)])
    /\ pc' = "done"
    /\ UNCHANGED << inventory, item_order_seed, items, retry_unk, i, attempt, attempts, success, results,
                    stats, requests, first_outcome, visited >>
    /\ UNCHANGED offRunnerVars

vars == << runnerVars, aggVars, statVars, matrixVars, instVars, checkVars >>

AggIdle ==
    /\ results_data = << >>
    /\ aggregated = None
    /\ orch_pc = "idle"
    /\ orch_row = None
    /\ scan_entry = None

StatIdle ==
    /\ call_fn = "idle"
    /\ call_args = None
    /\ call_ret = None

MatrixIdle ==
    /\ main_pc = "closed"
    /\ execution = 0
    /\ cond_i = 1
    /\ seed_i = 1
    /\ order_i = 1
    /\ baselines = << >>
    /\ run_files = << >>
    /\ summary_csv = [exists |-> FALSE, lines |-> << >>]
    /\ fh_buffer = << >>
    /\ rows_at_open = 0
    /\ base_found = << >>
    /\ failed = << >>
    /\ store = << >>
    /\ persona = None
    /\ trait_i = 1
    /\ persona_log = << >>
    /\ rejected = FALSE

InstIdle ==
    /\ loaded = None
    /\ agg_log = << >>

CheckIdle ==
    /\ runs_dir = [exists |-> FALSE, summary |-> None, sensitivity |-> None]
    /\ check_pc = "idle"
    /\ check_i = 1
    /\ check_data = << >>
    /\ reported = << >>
    /\ failed_checks = << >>
    /\ exit_code = None

Init == RunnerInit /\ AggIdle /\ StatIdle /\ MatrixIdle /\ InstIdle /\ CheckIdle

Next ==
    \/ Begin
    \/ ItemSkipEmpty
    \/ ItemBegin
    \/ PostFailure
    \/ PostRetryUnk
    \/ PostRecord
    \/ Finish

Spec == Init /\ [][Next]_vars

\* the loop is sequential and every request is bounded by its timeout, so a
\* step that can be taken is taken
FairSpec == Spec /\ WF_vars(Next)

\* ---------------------------------------------------------- the Aggregator
\* SCORES = {"A": 5, "B": 4, "C": 3, "D": 2, "E": 1}
SCORES == ("A" :> 5) @@ ("B" :> 4) @@ ("C" :> 3) @@ ("D" :> 2) @@ ("E" :> 1)

\* CODES = ["O", "C", "E", "A", "N"], the keys of `traits`
CODES == << "O", "C", "E", "A", "N" >>
CodeSet == { CODES[n] : n \in 1..Len(CODES) }

\* statistics.mean / stdev / median of a non-empty list of ints
Mean(scores) == Div(SumSeq(scores), Len(scores))

Stdev(scores) ==
    LET n == Len(scores)
        ss == n * SumSq(scores) - SumSeq(scores) * SumSeq(scores)
    IN Num(ISqrt((ss * Scale * Scale) \div (n * (n - 1))))

Median(scores) ==
    LET srt == Sorted(scores)
        n == Len(srt)
    IN IF n % 2 = 1 THEN Num(srt[(n + 1) \div 2] * Scale)
       ELSE Div(srt[n \div 2] + srt[n \div 2 + 1], 2)

\* statistics.mean of a non-empty list of floats
MeanF(fs) == Num(SumSeq([n \in 1..Len(fs) |-> fs[n].v]) \div Len(fs))

\* mutant of AggFinalScore: only key -1 is taken as reverse-keyed
AggFinalScoreMinusOneOnly(choice, key) ==
    IF key = -1 THEN 6 - SCORES[choice] ELSE SCORES[choice]

\* score = SCORES[choice]; if key != 1: score = 6 - score
AggFinalScore(choice, key) ==
    IF key # 1 THEN 6 - SCORES[choice] ELSE SCORES[choice]

\* traits[code] after the loop over data["results"]
RECURSIVE TraitScores(_, _)
TraitScores(rs, code) ==
    IF rs = << >> THEN << >>
    ELSE LET r == Head(rs)
         IN (IF r.parsed_choice \in DOMAIN SCORES /\ r.label_ocean = code
             THEN << AggFinalScore(r.parsed_choice, r.key) >>
             ELSE << >>) \o TraitScores(Tail(rs), code)

\* item_analysis after the loop (index is the 0-based position in results)
RECURSIVE ItemAnalysis(_, _)
ItemAnalysis(rs, idx) ==
    IF rs = << >> THEN << >>
    ELSE LET r == Head(rs)
         IN (IF r.parsed_choice \in DOMAIN SCORES
             THEN << [index |-> idx,
                      trait_code |-> r.label_ocean,
                      choice |-> r.parsed_choice,
                      raw_score |-> SCORES[r.parsed_choice],
                      key |-> r.key,
                      final_score |-> AggFinalScore(r.parsed_choice, r.key)] >>
             ELSE << >>) \o ItemAnalysis(Tail(rs), idx + 1)

\* unk_items after the loop, as the indices it holds
RECURSIVE UnkItems(_, _)
UnkItems(rs, idx) ==
    IF rs = << >> THEN << >>
    ELSE (IF Head(rs).parsed_choice \notin DOMAIN SCORES THEN << idx >> ELSE << >>)
         \o UnkItems(Tail(rs), idx + 1)

\* choice_counts after the loop
ChoiceCounts(rs) ==
    [c \in DOMAIN SCORES \cup {"UNK"} |->
        Cardinality({ n \in 1..Len(rs) :
            (IF rs[n].parsed_choice \in DOMAIN SCORES THEN rs[n].parsed_choice ELSE "UNK") = c })]

\* trait_summary[trait_code]
TraitSummaryOf(scores) ==
    IF scores # << >>
    THEN [n_items |-> Len(scores),
          mean |-> Mean(scores),
          std |-> IF Len(scores) > 1 THEN Stdev(scores) ELSE Num(0),
          min |-> Num(MinSeq(scores) * Scale),
          max |-> Num(MaxSeq(scores) * Scale),
          scores |-> scores,
          median |-> Median(scores)]
    ELSE [n_items |-> 0, mean |-> NaN, std |-> NaN, min |-> NaN, max |-> NaN,
          scores |-> << >>, median |-> NaN]

\* trait_stds = [summary["std"] for ... if not math.isnan(summary["std"])]
RECURSIVE TraitStdsFrom(_, _)
TraitStdsFrom(summary, codes) ==
    IF codes = << >> THEN << >>
    ELSE (IF summary[Head(codes)].std.nan THEN << >> ELSE << summary[Head(codes)].std >>)
         \o TraitStdsFrom(summary, Tail(codes))

TraitStds(summary) == TraitStdsFrom(summary, CODES)

\* _calculate_quality_metrics
QualityMetrics(choice_counts, summary) ==
    LET total_valid == SumSeq([n \in 1..Len(CODES) |->
                                  choice_counts[<< "A", "B", "C", "D", "E" >>[n]]])
        stds == TraitStds(summary)
    IN [extreme_response_bias |->
            IF total_valid > 0
            THEN Div(choice_counts["A"] + choice_counts["E"], total_valid)
            ELSE Num(0),
        avg_within_trait_consistency |->
            IF stds # << >> THEN MeanF(stds) ELSE NaN]

\* aggregate_traits: the value of self.aggregated
AggregateTraits(rs) ==
    LET traits == [code \in CodeSet |-> TraitScores(rs, code)]
        choice_counts == ChoiceCounts(rs)
        unk_items == UnkItems(rs, 0)
        trait_summary == [code \in CodeSet |-> TraitSummaryOf(traits[code])]
        total_items == Len(rs)
        valid_items == SumSeq([n \in 1..Len(CODES) |-> Len(traits[CODES[n]])])
    IN [metadata |-> [total_items |-> total_items,
                      valid_items |-> valid_items,
                      unk_items |-> Len(unk_items),
                      completion_rate |-> IF total_items > 0
                                          THEN Div(valid_items, total_items)
                                          ELSE Num(0)],
        choice_counts |-> choice_counts,
        trait_summary |-> trait_summary,
        item_analysis |-> ItemAnalysis(rs, 0),
        unk_items |-> unk_items,
        quality_metrics |-> QualityMetrics(choice_counts, trait_summary)]

\* generate_report divides every choice count by meta['total_items']
GenerateReportRaises(agg) == agg.metadata.total_items = 0

\* ------------------------------------------------- the Orchestrator's row
\* f"{x:.<d>f}": x rounded to d decimals ("nan" for NaN)
Pow10(d) == IF d = 0 THEN 1 ELSE IF d = 1 THEN 10 ELSE IF d = 2 THEN 100
            ELSE IF d = 3 THEN 1000 ELSE IF d = 4 THEN 10000 ELSE 1000000

Fmt(x, d) ==
    IF x.nan THEN NaN
    ELSE IF Pow10(d) >= Scale THEN x
    ELSE LET unit == Scale \div Pow10(d)
         IN Num(((x.v + unit \div 2) \div unit) * unit)

\* extract_means
ExtractMeans(agg) == [code \in CodeSet |-> agg.trait_summary[code].mean]

\* the row main writes for the combination (the columns computed from the
\* run record)
SummaryRow(agg) ==
    LET means == ExtractMeans(agg)
    IN [means |-> [code \in CodeSet |-> Fmt(means[code], 4)],
        valid_rate |-> Fmt(agg.metadata.completion_rate, 6),
        unk_count |-> agg.choice_counts["UNK"],
        extreme_bias |-> Fmt(agg.quality_metrics.extreme_response_bias, 6),
        consistency_std |-> Fmt(agg.quality_metrics.avg_within_trait_consistency, 6)]

\* ------------------------------------------------------ the Summary Scanner
\* choice = result.get("parsed_choice") or result.get("response") or "UNK"
ScanChoice(r) ==
    IF r.parsed_choice # "" THEN r.parsed_choice
    ELSE IF r.response # "" THEN r.response
    ELSE "UNK"

\* score_item: (trait, score), score None for a choice outside SCORES
score_item(r) ==
    LET choice == ScanChoice(r)
    IN IF choice \notin DOMAIN SCORES THEN << r.label_ocean, None >>
       ELSE << r.label_ocean,
               Some(IF r.key # 1 THEN 6 - SCORES[choice] ELSE SCORES[choice]) >>

\* trait_totals[trait] after the loop over data["results"]
RECURSIVE TraitTotals(_, _)
TraitTotals(rs, code) ==
    IF rs = << >> THEN << >>
    ELSE LET sc == score_item(Head(rs))
         IN (IF sc[2] # None /\ sc[1] = code THEN sc[2] ELSE << >>)
            \o TraitTotals(Tail(rs), code)

\* the entry scan_run_files builds for one file (the fields computed from
\* the results)
ScanEntry(rs) ==
    LET trait_totals == [code \in CodeSet |-> TraitTotals(rs, code)]
        unknown_responses ==
            Cardinality({ n \in 1..Len(rs) : score_item(rs[n])[2] = None })
        valid_responses ==
            Cardinality({ n \in 1..Len(rs) :
                score_item(rs[n])[2] # None /\ score_item(rs[n])[1] \in CodeSet })
        total_responses == valid_responses + unknown_responses
    IN [valid_responses |-> valid_responses,
        total_responses |-> total_responses,
        unk_rate |-> IF total_responses > 0
                     THEN Div(unknown_responses, total_responses)
                     ELSE Num(0),
        means |-> [code \in CodeSet |->
                      IF trait_totals[code] # << >>
                      THEN Mean(trait_totals[code]) ELSE Num(0)],
        trait_totals |-> trait_totals]

\* ------------------------------------------- AggSpec: one persisted record
ParsedChoices == DOMAIN SCORES \cup {"UNK", ""}

\* the response text stored beside a parsed choice; a record without a
\* parsed choice carries the bare letter in response
ResponseOf(c) == IF c = "" THEN "A" ELSE IF c = "UNK" THEN "maybe" ELSE c

Keys == {1, -1, 0}

ResultKinds ==
    { [parsed_choice |-> c, response |-> ResponseOf(c), label_ocean |-> t, key |-> k] :
        c \in ParsedChoices, t \in {"E", "O"}, k \in Keys }

RunnerIdle ==
    /\ inventory = << >>
    /\ item_order_seed = None
    /\ items = << >>
    /\ retry_unk = TRUE
    /\ pc = "idle"
    /\ i = 1
    /\ attempt = 1
    /\ attempts = 1
    /\ success = FALSE
    /\ results = << >>
    /\ stats = InitStats(0)
    /\ metadata = None
    /\ requests = << >>
    /\ first_outcome = << >>
    /\ visited = << >>

AggInit ==
    /\ RunnerIdle
    /\ StatIdle
    /\ MatrixIdle
    /\ CheckIdle
    /\ InstIdle
    /\ results_data \in SeqsUpTo(ResultKinds, MaxResults)
    /\ aggregated = None
    /\ orch_pc = "run_done"
    /\ orch_row = None
    /\ scan_entry = None

\* aggregate_to_md: load_results, aggregate_traits, generate_report
AggregateToMd ==
    /\ orch_pc = "run_done"
    /\ ~GenerateReportRaises(AggregateTraits(results_data))
    /\ aggregated' = Some(AggregateTraits(results_data))
    /\ orch_pc' = "reported"
    /\ UNCHANGED << results_data, orch_row, scan_entry >>
    /\ UNCHANGED offAggVars

\* aggregate_to_md when generate_report raises: main does not catch it
AggregateToMdRaises ==
    /\ orch_pc = "run_done"
    /\ GenerateReportRaises(AggregateTraits(results_data))
    /\ aggregated' = Some(AggregateTraits(results_data))
    /\ orch_pc' = "crashed"
    /\ UNCHANGED << results_data, orch_row, scan_entry >>
    /\ UNCHANGED offAggVars

\* main: the row of the combination is built, written and flushed
WriteRow ==
    /\ orch_pc = "reported"
    /\ orch_row' = Some(SummaryRow(aggregated[1]))
    /\ orch_pc' = "row_written"
    /\ UNCHANGED << results_data, aggregated, scan_entry >>
    /\ UNCHANGED offAggVars

\* scan_run_files on the file of the combination
ScanRunFile ==
    /\ orch_pc # "idle"
    /\ scan_entry = None
    /\ scan_entry' = Some(ScanEntry(results_data))
    /\ UNCHANGED << results_data, aggregated, orch_pc, orch_row >>
    /\ UNCHANGED offAggVars

AggNext ==
    \/ AggregateToMd
    \/ AggregateToMdRaises
    \/ WriteRow
    \/ ScanRunFile

AggSpec == AggInit /\ [][AggNext]_vars

\* ------------------------------------------------- compare_with_persona
TRAIT_MAPPING ==
    ("N" :> "neuroticism") @@ ("E" :> "extraversion") @@ ("O" :> "openness")
    @@ ("A" :> "agreeableness") @@ ("C" :> "conscientiousness")

\* str.lower() on the persona keys the model uses
Lower(k) ==
    CASE k = "Openness" -> "openness"
      [] k = "EXTRAVERSION" -> "extraversion"
      [] OTHER -> k

Abs(x) == IF x < 0 THEN -x ELSE x

\* a * Scale \div b without leaving 32 bits
Quot(a, b) ==
    IF Abs(a) < (2 ^ 30) \div Scale THEN (a * Scale) \div b
    ELSE a \div (b \div Scale)

\* persona_mapped: the trait codes found in persona_data, else its full
\* names compared case-insensitively
PersonaMapped(persona_data) ==
    LET direct == { c \in CodeSet : c \in DOMAIN persona_data }
        named == { c \in CodeSet :
                     \E k \in DOMAIN persona_data : Lower(k) = TRAIT_MAPPING[c] }
    IN IF direct # {}
       THEN [c \in direct |-> persona_data[c]]
       ELSE [c \in named |->
               persona_data[CHOOSE k \in DOMAIN persona_data :
                               Lower(k) = TRAIT_MAPPING[c]]]

\* the codes the comparison loop takes, in the order of trait_summary
RECURSIVE ComparedFrom(_, _, _)
ComparedFrom(codes, means, mapped) ==
    IF codes = << >> THEN << >>
    ELSE LET c == Head(codes)
             rest == ComparedFrom(Tail(codes), means, mapped)
         IN IF c \in DOMAIN mapped /\ ~means[c].nan THEN << c >> \o rest
            ELSE rest

RECURSIVE SumXY(_, _)
SumXY(xs, ys) ==
    IF xs = << >> THEN 0 ELSE Head(xs) * Head(ys) + SumXY(Tail(xs), Tail(ys))

\* a fixed-point value whose real number is a binary64 exactly (k / 8)
Dyadic(v) == (8 * v) % Scale = 0

\* n * sum_sq - sum ** 2 in exact arithmetic
SpreadTerm(vs) == Len(vs) * SumSq(vs) - SumSeq(vs) * SumSeq(vs)

\* the sign binary64 arithmetic gives that term for n copies of a value that
\* is not a binary fraction: the two rounded products differ by a residual.
\* Tabulated for 1.4, the one such mean the model draws
\* (5 * sum(1.4 ** 2 for _ in range(5)) - sum([1.4] * 5) ** 2 < 0).
Residual ==
    (1400 :> ((2 :> 0) @@ (3 :> 1) @@ (4 :> 0) @@ (5 :> -1)))

\* the sign of the term as computed: exact unless the values are all equal
\* and not binary fractions
FloatSpreadSign(vs) ==
    IF SpreadTerm(vs) # 0 THEN 1
    ELSE IF \A n \in 1..Len(vs) : Dyadic(vs[n]) THEN 0
    ELSE Residual[vs[1]][Len(vs)]

\* _pearson_correlation: math.sqrt of a negative product raises ValueError
PearsonRaises(x, y) ==
    /\ Len(x) = Len(y)
    /\ Len(x) >= 2
    /\ FloatSpreadSign(x) * FloatSpreadSign(y) < 0

\* _pearson_correlation, where it returns
PearsonCorrelation(x, y) ==
    IF Len(x) # Len(y) \/ Len(x) < 2 THEN NaN
    ELSE LET n == Len(x)
             a == SpreadTerm(x)
             b == SpreadTerm(y)
             numerator == n * SumXY(x, y) - SumSeq(x) * SumSeq(y)
         IN IF FloatSpreadSign(x) * FloatSpreadSign(y) = 0
            THEN Num(0)              \* denominator == 0: returns 0.0
            ELSE IF a # 0 /\ b # 0
            THEN Num(Quot(numerator, ISqrt(a) * ISqrt(b)))
            ELSE Num(0)              \* a residual over its root: below 1e-6

\* compare_with_persona on the trait means of self.aggregated
ComparePersona(means, persona_data) ==
    LET mapped == PersonaMapped(persona_data)
        compared == ComparedFrom(CODES, means, mapped)
        n == Len(compared)
        persona_values == [k \in 1..n |-> mapped[compared[k]]]
        measured_values == [k \in 1..n |-> means[compared[k]].v]
        error == [k \in 1..n |-> measured_values[k] - persona_values[k]]
        errors == [k \in 1..n |-> Abs(error[k])]
        comparisons ==
            [c \in { compared[k] : k \in 1..n } |->
               LET k == CHOOSE j \in 1..n : compared[j] = c
               IN [persona_value |-> persona_values[k],
                   measured_value |-> measured_values[k],
                   error |-> error[k],
                   abs_error |-> errors[k]]]
    IN IF n > 0 /\ PearsonRaises(persona_values, measured_values)
       THEN [raises |-> TRUE]
       ELSE [raises |-> FALSE,
             persona_snapshot |-> mapped,
             trait_comparisons |-> comparisons,
             correlation |->
                 IF n > 0 THEN PearsonCorrelation(persona_values, measured_values)
                 ELSE NaN,
             mean_absolute_error |->
                 IF n > 0 THEN Num(SumSeq(errors) \div n) ELSE NaN,
             root_mean_square_error |->
                 IF n > 0 THEN Num(ISqrt(SumSq(error) \div n)) ELSE NaN,
             traits_compared |-> n]

\* ------------------------------------ run_all.py: the experiment matrix
SEEDS == << 111, 222, 333 >>

ORDER_SEEDS == << None, Some(7) >>

Persona(o, c, e, a, n, target) ==
    [openness |-> o, conscientiousness |-> c, extraversion |-> e,
     agreeableness |-> a, neuroticism |-> n, target |-> target]

CONDITIONS ==
    ("NEUTRAL" :> Persona(3 * Scale, 3 * Scale, 3 * Scale, 3 * Scale, 3 * Scale, None))
    @@ ("E_HIGH" :> Persona(3 * Scale, 3 * Scale, 4500, 3 * Scale, 3 * Scale, Some("E")))
    @@ ("C_HIGH" :> Persona(3 * Scale, 4500, 3 * Scale, 3 * Scale, 3 * Scale, Some("C")))
    @@ ("N_LOW" :> Persona(3 * Scale, 3 * Scale, 3 * Scale, 3 * Scale, 2 * Scale, Some("N")))
    @@ ("E_20" :> Persona(3 * Scale, 3 * Scale, 2 * Scale, 3 * Scale, 3 * Scale, Some("E")))
    @@ ("E_30" :> Persona(3 * Scale, 3 * Scale, 3 * Scale, 3 * Scale, 3 * Scale, Some("E")))
    @@ ("E_40" :> Persona(3 * Scale, 3 * Scale, 4 * Scale, 3 * Scale, 3 * Scale, Some("E")))
    @@ ("E_50" :> Persona(3 * Scale, 3 * Scale, 5 * Scale, 3 * Scale, 3 * Scale, Some("E")))
    @@ ("TEST_USER" :> Persona(3 * Scale, 4200, 4500, 3 * Scale, 2100, None))

\* the keys of CONDITIONS in insertion order
ConditionKeys ==
    << "NEUTRAL", "E_HIGH", "C_HIGH", "N_LOW", "E_20", "E_30", "E_40", "E_50",
       "TEST_USER" >>

\* get_persona: the persona read back, by full trait names
PersonaOf(cond) ==
    [k \in { TRAIT_MAPPING[c] : c \in CodeSet } |-> CONDITIONS[cond][k]]

\* ------------------------------------------------------- compute_leakage
\* the codes compute_leakage takes a delta of, in the order of CODES
RECURSIVE LeakCodes(_, _, _, _)
LeakCodes(codes, means, baseline_means, target_code) ==
    IF codes = << >> THEN << >>
    ELSE LET code == Head(codes)
             rest == LeakCodes(Tail(codes), means, baseline_means, target_code)
         IN IF code = target_code \/ means[code].nan \/ baseline_means[code].nan
            THEN rest
            ELSE << code >> \o rest

ComputeLeakageAllCodes(means, baseline_means, target_code) ==
    IF target_code = None THEN None
    ELSE LET codes == LeakCodes(CODES, means, baseline_means, "")
             deltas == [k \in 1..Len(codes) |->
                          Abs(means[codes[k]].v - baseline_means[codes[k]].v)]
         IN IF deltas = << >> THEN None
            ELSE Some(Div(SumSeq(deltas), Len(deltas)))

\* compute_leakage; target_code is None or Some(code).  The result is None
\* or a float in units of 1 / Scale^2, the six decimals the row prints.
compute_leakage(means, baseline_means, target_code) ==
    IF target_code = None THEN None
    ELSE LET codes == LeakCodes(CODES, means, baseline_means, target_code[1])
             deltas == [k \in 1..Len(codes) |->
                          Abs(means[codes[k]].v - baseline_means[codes[k]].v)]
         IN IF deltas = << >> THEN None
            ELSE Some(Div(SumSeq(deltas), Len(deltas)))

\* main: the leakage of the row of a combination; base is baselines.get(key),
\* None or Some(means)
RowLeakage(cond, means, base) ==
    IF cond = "NEUTRAL" THEN None
    ELSE IF base = None THEN None
    ELSE compute_leakage(means, base[1], CONDITIONS[cond].target)

\* ------------------------------------------------------------ linear_fit
R2ZeroWhenFlat(ss_res, ss_tot) ==
    IF ss_tot > 0 THEN Num(Scale - Quot(ss_res, ss_tot)) ELSE Num(0)

\* r2 = 1 - (ss_res / ss_tot) if ss_tot > 0 else float("nan")
R2(ss_res, ss_tot) ==
    IF ss_tot > 0 THEN Num(Scale - Quot(ss_res, ss_tot)) ELSE NaN

\* linear_fit(x, y): x are fixed-point numbers, y floats; a NaN among y
\* makes every sum NaN
linear_fit(x, y) ==
    LET n == Len(x)
        ys == [k \in 1..Len(y) |-> y[k].v]
        sx == SumSeq(x)
        sy == SumSeq(ys)
        sxx == SumSq(x)
        sxy == SumXY(x, ys)
        denom == n * sxx - sx * sx
        slope == Quot(n * sxy - sx * sy, denom)
        mx == sx \div n
        my == sy \div n
        ss_tot == SumSq([k \in 1..n |-> ys[k] - my])
        ss_res == SumSq([k \in 1..n |->
                           ys[k] - ((slope * (x[k] - mx)) \div Scale + my)])
    IN IF n < 2 THEN [slope |-> NaN, r2 |-> NaN]
       ELSE IF denom = 0 THEN [slope |-> NaN, r2 |-> NaN]
       ELSE IF \E k \in 1..n : y[k].nan THEN [slope |-> NaN, r2 |-> NaN]
       ELSE [slope |-> Num(slope), r2 |-> R2(ss_res, ss_tot)]

\* ------------------------------- StatSpec: one call of a helper function
\* trait means an aggregation can hand to compare_with_persona
MeasuredMeans == { NaN, Num(1400), Num(3 * Scale), Num(4500) }

\* persona_data: by full names as get_persona returns it, by codes, with
\* capitals, partial and empty
PersonaInputs ==
    { PersonaOf("NEUTRAL"), PersonaOf("E_20"), PersonaOf("TEST_USER"),
      ("O" :> 3 * Scale) @@ ("C" :> 4200),
      ("E" :> 4500),
      ("Openness" :> 3 * Scale) @@ ("EXTRAVERSION" :> 4 * Scale),
      << >> }

\* measured means and cached baselines compute_leakage is called with
LeakMeans ==
    { ("O" :> o) @@ ("C" :> c) @@ ("E" :> e) @@ ("A" :> a) @@ ("N" :> n) :
        o \in {Num(3100), NaN}, c \in {Num(2900), Num(3 * Scale)},
        e \in {Num(4400), NaN}, a \in {Num(3 * Scale), Num(3500)},
        n \in {Num(3050), NaN} }

LeakBaselines ==
    { [code \in CodeSet |-> Num(3 * Scale)],
      [code \in CodeSet |-> IF code = "O" THEN NaN ELSE Num(3 * Scale)],
      [code \in CodeSet |-> NaN] }

\* the target magnitudes of the E gradient and shorter or constant x
FitXs ==
    { << >>, << 2 * Scale >>, << 3 * Scale, 3 * Scale >>, << 2 * Scale, 3 * Scale >>,
      << 2 * Scale, 3 * Scale, 4 * Scale, 5 * Scale >> }

FitYs == { NaN, Num(2100), Num(3 * Scale), Num(3900), Num(5100) }

StatInit ==
    /\ RunnerIdle
    /\ AggIdle
    /\ MatrixIdle
    /\ CheckIdle
    /\ InstIdle
    /\ call_ret = None
    /\ \/ /\ call_fn = "compare_with_persona"
          /\ call_args \in [means : [CodeSet -> MeasuredMeans],
                            persona_data : PersonaInputs]
       \/ /\ call_fn = "compute_leakage"
          /\ call_args \in [cond : { ConditionKeys[k] : k \in 1..Len(ConditionKeys) },
                            means : LeakMeans,
                            base : {None} \cup { Some(b) : b \in LeakBaselines }]
       \/ /\ call_fn = "linear_fit"
          /\ \E x \in FitXs :
                call_args \in [x : {x}, y : [1..Len(x) -> FitYs]]

offStatVars == << runnerVars, aggVars, matrixVars, instVars, checkVars >>

\* agg.compare_with_persona(persona)
CallComparePersona ==
    /\ call_fn = "compare_with_persona"
    /\ call_ret = None
    /\ call_ret' = Some(ComparePersona(call_args.means, call_args.persona_data))
    /\ UNCHANGED << call_fn, call_args >>
    /\ UNCHANGED offStatVars

\* main: baseline lookup and compute_leakage
CallComputeLeakage ==
    /\ call_fn = "compute_leakage"
    /\ call_ret = None
    /\ call_ret' = Some([raises |-> FALSE,
                         leakage |-> RowLeakage(call_args.cond, call_args.means,
                                                call_args.base)])
    /\ UNCHANGED << call_fn, call_args >>
    /\ UNCHANGED offStatVars

\* slope, r2 = linear_fit(xs, ys)
CallLinearFit ==
    /\ call_fn = "linear_fit"
    /\ call_ret = None
    /\ call_ret' = Some([raises |-> FALSE] @@ linear_fit(call_args.x, call_args.y))
    /\ UNCHANGED << call_fn, call_args >>
    /\ UNCHANGED offStatVars

StatNext ==
    \/ CallComparePersona
    \/ CallComputeLeakage
    \/ CallLinearFit

StatSpec == StatInit /\ [][StatNext]_vars

\* -------------------- ReuseSpec: one aggregator instance used repeatedly
MaxCalls == 3

\* run records the instance is given: no result, one scored item, two items
ReuseArtifacts ==
    { << >>,
      << [parsed_choice |-> "A", response |-> "A", label_ocean |-> "E", key |-> 1] >>,
      << [parsed_choice |-> "A", response |-> "A", label_ocean |-> "E", key |-> 1],
         [parsed_choice |-> "E", response |-> "E", label_ocean |-> "O", key |-> -1] >> }

DataOfLoadedFirst(results_data_arg, self_results_data) ==
    IF self_results_data # None THEN self_results_data ELSE results_data_arg

\* data = results_data or self.results_data
DataOf(results_data_arg, self_results_data) ==
    IF results_data_arg # None THEN results_data_arg ELSE self_results_data

ReuseInit ==
    /\ RunnerIdle
    /\ AggIdle
    /\ StatIdle
    /\ MatrixIdle
    /\ CheckIdle
    /\ InstIdle

offInstVars == << runnerVars, statVars, matrixVars, checkVars >>

\* agg = MPIResultsAggregator()
NewAggregator ==
    /\ loaded # None \/ aggregated # None
    /\ loaded' = None
    /\ aggregated' = None
    /\ UNCHANGED << agg_log, results_data, orch_pc, orch_row, scan_entry >>
    /\ UNCHANGED offInstVars

\* agg.load_results(path) of the artifact a
LoadResults(a) ==
    /\ loaded' = Some(a)
    /\ UNCHANGED << aggregated, agg_log, results_data, orch_pc, orch_row, scan_entry >>
    /\ UNCHANGED offInstVars

\* agg.aggregate_traits(arg): arg is None, or Some of an artifact; the call
\* raises ValueError and changes nothing when there is no data
AggregateTraitsCall(arg) ==
    /\ Len(agg_log) < MaxCalls
    /\ DataOf(arg, loaded) # None
    /\ LET data == DataOf(arg, loaded)[1]
           asked == IF arg # None THEN arg[1] ELSE loaded[1]
       IN /\ aggregated' = Some(AggregateTraits(data))
          /\ agg_log' = Append(agg_log,
                               [artifact |-> asked,
                                trait_summary |-> AggregateTraits(data).trait_summary])
    /\ UNCHANGED << loaded, results_data, orch_pc, orch_row, scan_entry >>
    /\ UNCHANGED offInstVars

ReuseNext ==
    \/ NewAggregator
    \/ \E a \in ReuseArtifacts : LoadResults(a)
    \/ \E arg \in {None} \cup { Some(a) : a \in ReuseArtifacts } : AggregateTraitsCall(arg)

ReuseSpec == ReuseInit /\ [][ReuseNext]_vars

\* ------------------------------- OrchSpec: main over the runs directory
\* conditions and seeds of the matrix the model runs, and executions of main
MaxConditions == 2
MaxSeeds == 1
MaxExecutions == 2

OrderedConditionsSorted ==
    << "C_HIGH", "E_20", "E_30", "E_40", "E_50", "E_HIGH", "NEUTRAL", "N_LOW",
       "TEST_USER" >>

\* ordered_conditions = ["NEUTRAL"] + [k for k in CONDITIONS.keys() if k != "NEUTRAL"]
ordered_conditions ==
    << "NEUTRAL" >> \o SelectSeq(ConditionKeys, LAMBDA k : k # "NEUTRAL")

MatrixConditions == SubSeq(ordered_conditions, 1, MaxConditions)
MatrixSeeds == SubSeq(SEEDS, 1, MaxSeeds)

\* tag = f"{cond}__seed-{seed}__order-{order_seed}", the name of the files of
\* a combination
Tag(cond, seed, order_seed) == << cond, seed, order_seed >>

\* the loop variables at the current position
CurCond == MatrixConditions[cond_i]
CurSeed == MatrixSeeds[seed_i]
CurOrderSeed == ORDER_SEEDS[order_i]
CurTag == Tag(CurCond, CurSeed, CurOrderSeed)
CurKey == << CurSeed, CurOrderSeed >>

Running == {"configure", "update", "read", "run", "aggregate", "row", "sensitivity"}
Ended == {"finished", "crashed", "killed"}

\* the columns of the Orchestrator's table: the names main writes as the
\* header, and the values of a row in the same positions
OrchestratorColumns ==
    << "condition", "user_id", "seed", "order_seed", "target",
       "O_mean", "C_mean", "E_mean", "A_mean", "N_mean",
       "persona_O", "persona_C", "persona_E", "persona_A", "persona_N",
       "correlation", "MAE", "RMSE", "leakage_vs_NEUTRAL", "valid_rate",
       "unk_count", "extreme_bias", "consistency_std", "avg_latency_ms",
       "total_tokens", "results_path", "report_path" >>

HeaderLine == [kind |-> "header", columns |-> OrchestratorColumns]

FlushNothing(buffer) == << >>

\* fh.flush(): the buffered lines that reach the file
Flush(buffer) == buffer

\* the file and the buffer after fh.flush(), and after the with block closes
\* the file
AfterFlush(buffer) ==
    [lines |-> summary_csv.lines \o Flush(buffer),
     buffer |-> SubSeq(buffer, Len(Flush(buffer)) + 1, Len(buffer))]

AfterClose(buffer) == summary_csv.lines \o buffer

offMatrixVars == << runnerVars, aggVars, statVars, instVars, checkVars >>

OrchInit ==
    /\ RunnerIdle
    /\ AggIdle
    /\ StatIdle
    /\ InstIdle
    /\ MatrixIdle
    /\ CheckIdle

\* main up to the loop: the summary is opened for append, the header is
\* written if the file did not exist, baselines starts empty
OrchOpen ==
    /\ main_pc \in {"closed"} \cup Ended
    /\ execution < MaxExecutions
    /\ execution' = execution + 1
    /\ main_pc' = "configure"
    /\ cond_i' = 1
    /\ seed_i' = 1
    /\ order_i' = 1
    /\ baselines' = << >>
    /\ rows_at_open' = Len(summary_csv.lines)
    /\ summary_csv' = [exists |-> TRUE, lines |-> summary_csv.lines]
    /\ fh_buffer' = IF summary_csv.exists THEN << >> ELSE << HeaderLine >>
    /\ base_found' = << >>
    /\ failed' = << >>
    /\ persona' = None
    /\ trait_i' = 1
    /\ persona_log' = << >>
    /\ rejected' = FALSE
    /\ UNCHANGED << run_files, store >>
    /\ UNCHANGED offMatrixVars

\* the traits of a condition's config, in the order conf.items() yields them
ConfTraits ==
    << "openness", "conscientiousness", "extraversion", "agreeableness",
       "neuroticism" >>

\* get_persona of a persona no trait of which was set: data.get(name, 3.0)
UnsetPersona == [k \in { ConfTraits[n] : n \in 1..Len(ConfTraits) } |-> 3 * Scale]

\* what the store answers a create or update request with: it accepts the
\* request, or answers with an error status
StoreAnswers == {"ok", "error_status"}

\* set_persona: the create request (idempotent: an existing persona is left
\* alone); the status of the response is not looked at
OrchCreatePersona(answer) ==
    /\ main_pc = "configure"
    /\ store' = IF answer = "ok" /\ CurCond \notin DOMAIN store
                THEN (CurCond :> UnsetPersona) @@ store
                ELSE store
    /\ persona_log' = << "create" >>
    /\ rejected' = (answer # "ok")
    /\ trait_i' = 1
    /\ main_pc' = "update"
    /\ UNCHANGED << execution, cond_i, seed_i, order_i, baselines, run_files,
                    summary_csv, fh_buffer, rows_at_open, base_found, failed,
                    persona >>
    /\ UNCHANGED offMatrixVars

\* set_persona: the update request of one trait; a store without the
\* persona cannot accept it; the status of the response is not looked at
OrchUpdateTrait(answer) ==
    /\ main_pc = "update"
    /\ answer = "ok" => CurCond \in DOMAIN store
    /\ LET trait == ConfTraits[trait_i]
       IN /\ store' = IF answer = "ok"
                      THEN [store EXCEPT ![CurCond][trait] = CONDITIONS[CurCond][trait]]
                      ELSE store
          /\ persona_log' = Append(persona_log, trait)
          /\ rejected' = (rejected \/ answer # "ok")
    /\ IF trait_i < Len(ConfTraits)
       THEN /\ trait_i' = trait_i + 1
            /\ UNCHANGED main_pc
       ELSE /\ main_pc' = "read"
            /\ UNCHANGED trait_i
    /\ UNCHANGED << execution, cond_i, seed_i, order_i, baselines, run_files,
                    summary_csv, fh_buffer, rows_at_open, base_found, failed,
                    persona >>
    /\ UNCHANGED offMatrixVars

\* get_persona: the read-back of an existing persona; main prints it and
\* goes on to the runs
OrchReadPersona ==
    /\ main_pc = "read"
    /\ CurCond \in DOMAIN store
    /\ persona' = Some(store[CurCond])
    /\ persona_log' = Append(persona_log, "get")
    /\ main_pc' = "run"
    /\ UNCHANGED << execution, cond_i, seed_i, order_i, baselines, run_files,
                    summary_csv, fh_buffer, rows_at_open, base_found, failed,
                    store, trait_i, rejected >>
    /\ UNCHANGED offMatrixVars

\* get_persona of a persona that does not exist: r.raise_for_status()
\* raises, main does not catch it and the with block closes fh
OrchReadPersonaRaises ==
    /\ main_pc = "read"
    /\ CurCond \notin DOMAIN store
    /\ summary_csv' = [exists |-> TRUE, lines |-> AfterClose(fh_buffer)]
    /\ fh_buffer' = << >>
    /\ main_pc' = "crashed"
    /\ UNCHANGED << execution, cond_i, seed_i, order_i, baselines, run_files,
                    rows_at_open, base_found, failed, personaVars >>
    /\ UNCHANGED offMatrixVars

\* run_mpi: the Runner exits 0 after save_results wrote (or overwrote) the
\* artifact; kind "empty" is a record without results
OrchRunMpi(kind) ==
    /\ main_pc = "run"
    /\ run_files' = (CurTag :> [written_by |-> execution, kind |-> kind]) @@ run_files
    /\ main_pc' = "aggregate"
    /\ UNCHANGED << execution, cond_i, seed_i, order_i, baselines, summary_csv,
                    fh_buffer, rows_at_open, base_found, failed >>
    /\ UNCHANGED personaVars
    /\ UNCHANGED offMatrixVars

\* run_mpi: the Runner exits nonzero before writing; subprocess.run raises
\* CalledProcessError, main does not catch it and the with block closes fh
OrchRunMpiFails ==
    /\ main_pc = "run"
    /\ failed' = Append(failed, CurTag)
    /\ summary_csv' = [exists |-> TRUE, lines |-> AfterClose(fh_buffer)]
    /\ fh_buffer' = << >>
    /\ main_pc' = "crashed"
    /\ UNCHANGED << execution, cond_i, seed_i, order_i, baselines, run_files,
                    rows_at_open, base_found >>
    /\ UNCHANGED personaVars
    /\ UNCHANGED offMatrixVars

\* aggregate_to_md, extract_means, compare_with_persona
OrchAggregate ==
    /\ main_pc = "aggregate"
    /\ run_files[CurTag].kind = "scored"
    /\ main_pc' = "row"
    /\ UNCHANGED << execution, cond_i, seed_i, order_i, baselines, run_files,
                    summary_csv, fh_buffer, rows_at_open, base_found, failed >>
    /\ UNCHANGED personaVars
    /\ UNCHANGED offMatrixVars

\* aggregate_to_md raises (generate_report on a record without results);
\* main does not catch it
OrchAggregateRaises ==
    /\ main_pc = "aggregate"
    /\ run_files[CurTag].kind = "empty"
    /\ failed' = Append(failed, CurTag)
    /\ summary_csv' = [exists |-> TRUE, lines |-> AfterClose(fh_buffer)]
    /\ fh_buffer' = << >>
    /\ main_pc' = "crashed"
    /\ UNCHANGED << execution, cond_i, seed_i, order_i, baselines, run_files,
                    rows_at_open, base_found >>
    /\ UNCHANGED personaVars
    /\ UNCHANGED offMatrixVars

\* the row of the combination: whether a leakage value is computed
RowOf(cond, seed, order_seed, base) ==
    [kind |-> "row", columns |-> OrchestratorColumns,
     condition |-> cond, seed |-> seed, order_seed |-> order_seed,
     persona_vec |-> persona[1],
     leakage |-> IF cond # "NEUTRAL" /\ base # None /\ CONDITIONS[cond].target # None
                 THEN "value" ELSE "",
     results_path |-> Tag(cond, seed, order_seed)]

\* main: baseline cache and leakage, the row written and flushed, and the
\* loops advanced
OrchWriteRow ==
    /\ main_pc = "row"
    /\ LET base == IF CurKey \in DOMAIN baselines THEN Some(baselines[CurKey]) ELSE None
           after == AfterFlush(Append(fh_buffer,
                                      RowOf(CurCond, CurSeed, CurOrderSeed, base)))
       IN /\ IF CurCond = "NEUTRAL"
             THEN /\ baselines' = (CurKey :> run_files[CurTag]) @@ baselines
                  /\ UNCHANGED base_found
             ELSE /\ base_found' = Append(base_found,
                                          [tag |-> CurTag, found |-> base # None])
                  /\ UNCHANGED baselines
          /\ summary_csv' = [exists |-> TRUE, lines |-> after.lines]
          /\ fh_buffer' = after.buffer
    /\ IF order_i < Len(ORDER_SEEDS)
       THEN /\ order_i' = order_i + 1
            /\ main_pc' = "run"
            /\ UNCHANGED << cond_i, seed_i >>
       ELSE IF seed_i < Len(MatrixSeeds)
       THEN /\ order_i' = 1
            /\ seed_i' = seed_i + 1
            /\ main_pc' = "run"
            /\ UNCHANGED cond_i
       ELSE /\ order_i' = 1
            /\ seed_i' = 1
            /\ cond_i' = cond_i + 1
            /\ main_pc' = IF cond_i < Len(MatrixConditions) THEN "configure"
                          ELSE "sensitivity"
    /\ UNCHANGED << execution, run_files, rows_at_open, failed >>
    /\ UNCHANGED personaVars
    /\ UNCHANGED offMatrixVars

\* the sensitivity fit over the artifacts of the E gradient, then the with
\* block closes fh
OrchSensitivity ==
    /\ main_pc = "sensitivity"
    /\ summary_csv' = [exists |-> TRUE, lines |-> AfterClose(fh_buffer)]
    /\ fh_buffer' = << >>
    /\ main_pc' = "finished"
    /\ UNCHANGED << execution, cond_i, seed_i, order_i, baselines, run_files,
                    rows_at_open, base_found, failed >>
    /\ UNCHANGED personaVars
    /\ UNCHANGED offMatrixVars

\* an exception from outside the combination (KeyboardInterrupt, an HTTP
\* error of get_persona): the with block closes fh
OrchInterrupt ==
    /\ main_pc \in Running
    /\ summary_csv' = [exists |-> TRUE, lines |-> AfterClose(fh_buffer)]
    /\ fh_buffer' = << >>
    /\ main_pc' = "crashed"
    /\ UNCHANGED << execution, cond_i, seed_i, order_i, baselines, run_files,
                    rows_at_open, base_found, failed >>
    /\ UNCHANGED personaVars
    /\ UNCHANGED offMatrixVars

\* the process is killed: what fh still buffers is lost
OrchKill ==
    /\ main_pc \in Running
    /\ fh_buffer' = << >>
    /\ main_pc' = "killed"
    /\ UNCHANGED << execution, cond_i, seed_i, order_i, baselines, run_files,
                    summary_csv, rows_at_open, base_found, failed >>
    /\ UNCHANGED personaVars
    /\ UNCHANGED offMatrixVars

OrchNext ==
    \/ OrchOpen
    \/ \E answer \in StoreAnswers : OrchCreatePersona(answer)
    \/ \E answer \in StoreAnswers : OrchUpdateTrait(answer)
    \/ OrchReadPersona
    \/ OrchReadPersonaRaises
    \/ \E kind \in {"scored", "empty"} : OrchRunMpi(kind)
    \/ OrchRunMpiFails
    \/ OrchAggregate
    \/ OrchAggregateRaises
    \/ OrchWriteRow
    \/ OrchSensitivity
    \/ OrchInterrupt
    \/ OrchKill

OrchSpec == OrchInit /\ [][OrchNext]_vars

\* ------------- TableSpec: the Orchestrator and the Summary Scanner in turn
\* the columns of the Scanner's table
ScannerColumns ==
    << "condition", "seed", "order", "valid_responses", "total_responses",
       "unk_rate", "O_mean", "C_mean", "E_mean", "A_mean", "N_mean",
       "correlation", "mae", "rmse", "duration_seconds", "avg_latency_ms",
       "p95_latency_ms", "total_tokens" >>

ScannerHeader == [kind |-> "header", columns |-> ScannerColumns]

\* the entry of one run file: condition from the directory, seed and order
\* from the file name, written by the DictWriter under ScannerColumns
ScannerRow(tag) ==
    [kind |-> "row", columns |-> ScannerColumns,
     condition |-> tag[1], seed |-> tag[2], order |-> tag[3]]

\* sorted(results, key=(condition, seed, order)): the three are strings; the
\* order "None" sorts after the digits of a number
ConditionRank(cond) ==
    CHOOSE k \in 1..Len(OrderedConditionsSorted) : OrderedConditionsSorted[k] = cond

OrderLess(a, b) == a # None /\ (b = None \/ a[1] < b[1])

TagLess(a, b) ==
    \/ ConditionRank(a[1]) < ConditionRank(b[1])
    \/ a[1] = b[1] /\ a[2] < b[2]
    \/ a[1] = b[1] /\ a[2] = b[2] /\ OrderLess(a[3], b[3])

RECURSIVE SortedTags(_)
SortedTags(tags) ==
    IF tags = {} THEN << >>
    ELSE LET first == CHOOSE t \in tags : \A u \in tags \ {t} : TagLess(t, u)
         IN << first >> \o SortedTags(tags \ {first})

\* write_summary_csv: the file is opened for writing (what it held is gone),
\* the header and one row per run file
ScannedTable(files) ==
    LET sorted_results == SortedTags(DOMAIN files)
    IN << ScannerHeader >> \o
       [k \in 1..Len(sorted_results) |-> ScannerRow(sorted_results[k])]

\* summarize.main between two executions of the Orchestrator; without a run
\* file it returns before the table is written
ScanSummary ==
    /\ main_pc \in {"closed"} \cup Ended
    /\ DOMAIN run_files # {}
    /\ summary_csv' = [exists |-> TRUE, lines |-> ScannedTable(run_files)]
    /\ UNCHANGED << main_pc, execution, cond_i, seed_i, order_i, baselines,
                    run_files, fh_buffer, rows_at_open, base_found, failed,
                    personaVars >>
    /\ UNCHANGED offMatrixVars

\* executions that end by themselves (main returns or raises), and the
\* Scanner between them
TableNext ==
    \/ OrchOpen
    \/ \E answer \in StoreAnswers : OrchCreatePersona(answer)
    \/ \E answer \in StoreAnswers : OrchUpdateTrait(answer)
    \/ OrchReadPersona
    \/ OrchReadPersonaRaises
    \/ \E kind \in {"scored", "empty"} : OrchRunMpi(kind)
    \/ OrchRunMpiFails
    \/ OrchAggregate
    \/ OrchAggregateRaises
    \/ OrchWriteRow
    \/ OrchSensitivity
    \/ ScanSummary

TableSpec == OrchInit /\ [][TableNext]_vars

\* ---------------------------------------- checks.py: the validation command
\* longest summary table the validation command is run on
MaxRows == 2

\* THRESHOLDS, in 1/Scale units
THRESHOLDS ==
    [monotonicity_tolerance |-> 50,
     sensitivity_r2_min |-> 850,
     sensitivity_slope_tolerance |-> 250,
     unk_rate_max |-> 20]

\* a cell of a row as csv.DictReader yields it: the text of a number, an
\* empty text, or None for a cell a short line does not have; and the float
\* load_summary_csv converts a numeric text to
TextCell(x) == [py |-> "str", numeric |-> TRUE, val |-> x]
EmptyCell == [py |-> "str", numeric |-> FALSE, val |-> NaN]
NoneCell == [py |-> "None", numeric |-> FALSE, val |-> NaN]
FloatCell(x) == [py |-> "float", numeric |-> TRUE, val |-> x]

\* comparisons of floats: every comparison with a NaN is False
LtF(a, b) == ~a.nan /\ ~b.nan /\ a.v < b.v
GtF(a, b) == ~a.nan /\ ~b.nan /\ a.v > b.v
LeF(a, b) == ~a.nan /\ ~b.nan /\ a.v <= b.v
AddF(a, b) == IF a.nan \/ b.nan THEN NaN ELSE Num(a.v + b.v)

\* one run as a summary writer sees it: its condition, the mean of its valid
\* E responses (NaN: none), its unknown and total results
RunInputs ==
    { [condition |-> r[1], E_mean |-> r[2], unknown |-> r[3], total |-> 50] :
        r \in { << "E_20", Num(3 * Scale), 0 >>,
                << "E_30", Num(3050), 1 >>,
                << "E_30", Num(3060), 2 >>,
                << "E_30", NaN, 10 >>,
                << "NEUTRAL", Num(3 * Scale), 0 >> } }

\* the line main of run_all.py writes for a run, as DictReader yields it
\* under the header main wrote: the columns the gates could use
OrchestratorLine(run) ==
    [condition |-> run.condition,
     cells |-> ("E_mean" :> TextCell(Fmt(run.E_mean, 4)))
               @@ ("valid_rate" :> TextCell(Fmt(Div(run.total - run.unknown, run.total), 6)))
               @@ ("unk_count" :> TextCell(Num(run.unknown * Scale)))]

\* the line write_summary_csv writes for the entry of a run, likewise
ScannerLine(run) ==
    [condition |-> run.condition,
     cells |-> ("unk_rate" :> TextCell(IF run.total > 0
                                       THEN Div(run.unknown, run.total)
                                       ELSE Num(0)))
               @@ ("E_mean" :> TextCell(IF run.E_mean.nan THEN Num(0) ELSE run.E_mean))]

\* a last line of the Scanner's table whose writer was stopped in the middle
\* of it: cut ahead of the unk_rate column, or right after the comma ahead
\* of the E_mean column
CutAheadOfUnkRate(line) ==
    [line EXCEPT !.cells = [k \in DOMAIN line.cells |-> NoneCell]]

CutAtEMean(line) == [line EXCEPT !.cells["E_mean"] = EmptyCell]

WithLast(lines, cut(_)) ==
    [n \in 1..Len(lines) |-> IF n = Len(lines) THEN cut(lines[n]) ELSE lines[n]]

\* the summary tables drawn: written by the Orchestrator (possibly without
\* a row yet), by the Scanner, and by a Scanner stopped in its last line
SummaryTables ==
    { [writer |-> "orchestrator", runs |-> rs,
       rows |-> [n \in 1..Len(rs) |-> OrchestratorLine(rs[n])]] :
        rs \in SeqsUpTo(RunInputs, MaxRows) }
    \cup
    { [writer |-> "scanner", runs |-> rs,
       rows |-> [n \in 1..Len(rs) |-> ScannerLine(rs[n])]] :
        rs \in SeqsUpTo(RunInputs, MaxRows) \ { << >> } }
    \cup
    { [writer |-> "scanner_cut", runs |-> rs,
       rows |-> WithLast([n \in 1..Len(rs) |-> ScannerLine(rs[n])], CutAheadOfUnkRate)] :
        rs \in SeqsUpTo(RunInputs, MaxRows) \ { << >> } }
    \cup
    { [writer |-> "scanner_cut", runs |-> rs,
       rows |-> WithLast([n \in 1..Len(rs) |-> ScannerLine(rs[n])], CutAtEMean)] :
        rs \in SeqsUpTo(RunInputs, MaxRows) \ { << >> } }

\* the measured E means of the four gradient runs the fit is taken over
SensitivityYs ==
    { << Num(2100), Num(3 * Scale), Num(3900), Num(5100) >>,
      << Num(3 * Scale), Num(3 * Scale), Num(3 * Scale), Num(3 * Scale) >>,
      << Num(2100), NaN, Num(3900), Num(5100) >> }

\* sens = {"target_trait": "E", "pairs": [...], "slope": slope, "r2": r2}:
\* the number-valued keys of the artifact main of run_all.py writes
SensitivityOf(fit) == ("slope" :> fit.slope) @@ ("r2" :> fit.r2)

\* an artifact under the keys the gate reads
GateKeyed(fit) == ("slope" :> fit.slope) @@ ("r_squared" :> fit.r2)

SensitivityArtifacts ==
    { SensitivityOf(linear_fit(<< 2 * Scale, 3 * Scale, 4 * Scale, 5 * Scale >>, y)) :
        y \in SensitivityYs }
    \cup
    { GateKeyed(f) :
        f \in { [slope |-> Num(990), r2 |-> Num(995)],
                [slope |-> Num(1250), r2 |-> Num(850)],
                [slope |-> Num(1260), r2 |-> Num(850)],
                [slope |-> Num(750), r2 |-> Num(840)] } }

\* what the validation command can find
CheckInputs ==
    { [exists |-> FALSE, summary |-> None, sensitivity |-> None] }
    \cup
    { [exists |-> TRUE, summary |-> t, sensitivity |-> s] :
        t \in {None} \cup { Some(x) : x \in SummaryTables },
        s \in {None} \cup { Some(x) : x \in SensitivityArtifacts } }

\* the keys load_summary_csv converts
NumericKeys ==
    {"O_mean", "C_mean", "E_mean", "A_mean", "N_mean", "correlation", "mae",
     "rmse", "unk_rate"}

\* load_summary_csv: the rows of the file, the non-empty cells of the
\* numeric keys converted with float()
LoadRow(row) ==
    [condition |-> row.condition,
     cells |-> [k \in DOMAIN row.cells |->
                  IF k \in NumericKeys /\ row.cells[k].py = "str" /\ row.cells[k].numeric
                  THEN FloatCell(row.cells[k].val)
                  ELSE row.cells[k]]]

load_summary_csv(summary) ==
    IF summary = None THEN << >>
    ELSE [n \in 1..Len(summary[1].rows) |-> LoadRow(summary[1].rows[n])]

\* expected_order
ExpectedOrder == << "E_20", "E_30", "E_40", "E_50" >>

\* e_conditions[condition]: the E_mean cells of the rows of the condition
\* that are not None
RECURSIVE EValues(_, _)
EValues(rows, condition) ==
    IF rows = << >> THEN << >>
    ELSE (IF /\ Head(rows).condition = condition
             /\ "E_mean" \in DOMAIN Head(rows).cells
             /\ Head(rows).cells["E_mean"].py # "None"
          THEN << Head(rows).cells["E_mean"] >> ELSE << >>)
         \o EValues(Tail(rows), condition)

\* check_monotonicity(data): statistics.mean raises on a str; a violation is
\* curr_val <= prev_val + tolerance between neighbours of `available`
check_monotonicity(rows) ==
    LET vals(c) == EValues(rows, c)
        floats(c) == [n \in 1..Len(vals(c)) |-> vals(c)[n].val]
        e_mean(c) == IF \E n \in 1..Len(vals(c)) : floats(c)[n].nan THEN NaN
                     ELSE MeanF(floats(c))
        available == SelectSeq(ExpectedOrder, LAMBDA c : vals(c) # << >>)
    IN IF \E c \in DOMAIN CONDITIONS : \E n \in 1..Len(vals(c)) : vals(c)[n].py = "str"
       THEN [raises |-> TRUE, passed |-> FALSE]
       ELSE IF Len(available) < 2 THEN [raises |-> FALSE, passed |-> TRUE]
       ELSE [raises |-> FALSE,
             passed |-> ~\E k \in 1..(Len(available) - 1) :
                            LeF(e_mean(available[k + 1]),
                                AddF(e_mean(available[k]),
                                     Num(THRESHOLDS.monotonicity_tolerance)))]

\* row.get('unk_rate', 0)
UnkRateOf(row) ==
    IF "unk_rate" \in DOMAIN row.cells THEN row.cells["unk_rate"]
    ELSE FloatCell(Num(0))

\* check_unk_rates(data): comparing a str or None with the float raises
check_unk_rates(rows) ==
    IF \E n \in 1..Len(rows) : UnkRateOf(rows[n]).py # "float"
    THEN [raises |-> TRUE, passed |-> FALSE]
    ELSE [raises |-> FALSE,
          passed |-> ~\E n \in 1..Len(rows) :
                         GtF(UnkRateOf(rows[n]).val, Num(THRESHOLDS.unk_rate_max))]

\* sensitivity.get(key, 0)
SensGet(sensitivity, key) ==
    IF key \in DOMAIN sensitivity THEN sensitivity[key] ELSE Num(0)

\* abs(slope - 1.0)
SlopeDeviation(slope) == IF slope.nan THEN NaN ELSE Num(Abs(slope.v - Scale))

\* check_sensitivity_analysis(runs_dir): never raises
check_sensitivity_analysis(sensitivity_file) ==
    IF sensitivity_file = None THEN [raises |-> FALSE, passed |-> FALSE]
    ELSE LET r2 == SensGet(sensitivity_file[1], "r_squared")
             slope == SensGet(sensitivity_file[1], "slope")
         IN [raises |-> FALSE,
             passed |-> /\ ~LtF(r2, Num(THRESHOLDS.sensitivity_r2_min))
                        /\ ~GtF(SlopeDeviation(slope),
                                Num(THRESHOLDS.sensitivity_slope_tolerance))]

\* checks: the gates in the order main runs them
CheckNames ==
    << "E Gradient Monotonicity", "UNK Rate Validation", "Sensitivity Analysis" >>

\* check_func(data) of the gate at index n
RunCheck(n) ==
    IF n = 1 THEN check_monotonicity(check_data)
    ELSE IF n = 2 THEN check_unk_rates(check_data)
    ELSE check_sensitivity_analysis(runs_dir.sensitivity)

offCheckVars == << runnerVars, aggVars, statVars, matrixVars, instVars >>

CheckInit ==
    /\ RunnerIdle
    /\ AggIdle
    /\ StatIdle
    /\ InstIdle
    /\ MatrixIdle
    /\ runs_dir \in CheckInputs
    /\ check_pc = "start"
    /\ check_i = 1
    /\ check_data = << >>
    /\ reported = << >>
    /\ failed_checks = << >>
    /\ exit_code = None

\* main: runs/ or summary.csv is missing, or the table has no row:
\* sys.exit(1) before any gate
CheckPrerequisiteMissing ==
    /\ check_pc = "start"
    /\ \/ ~runs_dir.exists
       \/ runs_dir.summary = None
       \/ load_summary_csv(runs_dir.summary) = << >>
    /\ exit_code' = Some(1)
    /\ check_pc' = "exited"
    /\ UNCHANGED << runs_dir, check_i, check_data, reported, failed_checks >>
    /\ UNCHANGED offCheckVars

\* main: the table is loaded and has rows
CheckLoad ==
    /\ check_pc = "start"
    /\ runs_dir.exists
    /\ runs_dir.summary # None
    /\ load_summary_csv(runs_dir.summary) # << >>
    /\ check_data' = load_summary_csv(runs_dir.summary)
    /\ check_pc' = "gates"
    /\ UNCHANGED << runs_dir, check_i, reported, failed_checks, exit_code >>
    /\ UNCHANGED offCheckVars

\* mutant of CheckGate: a gate that fails ends the loop
CheckGateStopsAtFailure ==
    /\ check_pc = "gates"
    /\ LET ret == RunCheck(check_i)
           ok == ~ret.raises /\ ret.passed
       IN /\ reported' = Append(reported, [check |-> CheckNames[check_i],
                                           passed |-> ok, raised |-> ret.raises])
          /\ failed_checks' = IF ok THEN failed_checks
                              ELSE Append(failed_checks, CheckNames[check_i])
          /\ check_pc' = IF check_i < Len(CheckNames) /\ ok THEN "gates" ELSE "verdict"
    /\ check_i' = check_i + 1
    /\ UNCHANGED << runs_dir, check_data, exit_code >>
    /\ UNCHANGED offCheckVars

\* main: one iteration of the loop over checks: the gate is run, its result
\* printed, a failed or raising gate appended to failed_checks
CheckGate ==
    /\ check_pc = "gates"
    /\ LET ret == RunCheck(check_i)
           ok == ~ret.raises /\ ret.passed
       IN /\ reported' = Append(reported, [check |-> CheckNames[check_i],
                                           passed |-> ok, raised |-> ret.raises])
          /\ failed_checks' = IF ok THEN failed_checks
                              ELSE Append(failed_checks, CheckNames[check_i])
    /\ check_pc' = IF check_i < Len(CheckNames) THEN "gates" ELSE "verdict"
    /\ check_i' = check_i + 1
    /\ UNCHANGED << runs_dir, check_data, exit_code >>
    /\ UNCHANGED offCheckVars

\* main: the final summary and sys.exit
CheckVerdict ==
    /\ check_pc = "verdict"
    /\ exit_code' = Some(IF failed_checks # << >> THEN 1 ELSE 0)
    /\ check_pc' = "exited"
    /\ UNCHANGED << runs_dir, check_i, check_data, reported, failed_checks >>
    /\ UNCHANGED offCheckVars

CheckNext ==
    \/ CheckPrerequisiteMissing
    \/ CheckLoad
    \/ CheckGate
    \/ CheckVerdict

CheckSpec == CheckInit /\ [][CheckNext]_vars

\* the command is one sequential process that blocks on nothing
FairCheckSpec == CheckSpec /\ WF_vars(CheckNext)

\* ------------------------------------------------------ claims: the Runner
Letters == {"A", "B", "C", "D", "E"}

ItemIndices == 1..Len(items)

\* items for which at least one request was issued
Attempted == { k \in ItemIndices : requests[k] >= 1 }

RECURSIVE CountIn(_, _)
CountIn(rs, S) ==
    IF rs = << >> THEN 0
    ELSE (IF Head(rs).parsed_choice \in S THEN 1 ELSE 0) + CountIn(Tail(rs), S)

\* C1: an item gets a second request only if its first request returned a
\* success envelope whose parsed choice is UNK and retry-on-unknown is on; a
\* first request that raised, returned a non-200 status or a non-success
\* envelope is never followed by a second request for that item.
C1_SecondRequestOnlyAfterUnknown ==
    \A k \in ItemIndices :
        requests[k] >= 2 => (first_outcome[k] = "success_unk" /\ retry_unk)

\* C2: when run_assessment has returned, results has exactly one entry per
\* item attempted; an item whose requests failed is in results as UNK.
C2_OneResultPerAttemptedItem ==
    pc = "done" =>
        /\ Len(results) = Cardinality(Attempted)
        /\ \A k \in Attempted :
              \E n \in 1..Len(results) : results[n].item_index = k - 1

\* C3: at most 2 requests per item, at most 1 per item when retry-on-unknown
\* is disabled, hence at most 2 x the number of items in a run.
C3_RequestsBounded ==
    /\ \A k \in ItemIndices : requests[k] <= (IF retry_unk THEN 2 ELSE 1)
    /\ SumSeq(requests) <= 2 * Len(items)

\* C3 witness: a finished run in which some item took two requests
C3_Witness ==
    /\ pc = "done"
    /\ \E k \in ItemIndices : requests[k] = 2

\* C4: whatever the per-item outcomes, the loop takes every item of the
\* inventory in order and run_assessment terminates by returning an artifact
\* with metadata and results; no item's failure ends the run early.
C4_RunVisitsAllAndReturns ==
    /\ [](\A k \in 1..Len(visited) : visited[k] = k)
    /\ [](pc = "done" =>
            /\ Len(visited) = Len(items)
            /\ metadata # None
            /\ metadata[1].items_processed = Len(items))
    /\ <>(pc = "done")

\* C4 witness: a returned run whose first item failed on every request and
\* whose second item was still processed
C4_Witness ==
    /\ pc = "done"
    /\ Len(items) >= 2
    /\ first_outcome[1] \in {"exception", "http_error", "api_error"}
    /\ \A n \in 1..Len(results) : results[n].item_index # 0
    /\ requests[2] >= 1
    /\ metadata # None

\* C5: in the run metadata of a run of at least one item, every item sent to
\* the endpoint, completion_rate is in [0,1] and is 1.0 exactly when no result
\* of the run is unknown.
C5_CompletionRateOneIffNoUnknown ==
    (pc = "done" /\ Len(items) >= 1 /\ Attempted = ItemIndices) =>
        LET rate == metadata[1].completion_rate
        IN /\ ~rate.nan
           /\ 0 <= rate.v /\ rate.v <= Scale
           /\ (rate.v = Scale) <=> (CountIn(results, {"UNK"}) = 0)

\* C7: the runner counts a result whose parsed choice is not exactly one of
\* A..E in statistics.unknown, never in statistics.successful.
C7_NonLetterCountedUnknown ==
    pc = "done" =>
        /\ stats.successful = CountIn(results, Letters)
        /\ stats.unknown = Len(results) - CountIn(results, Letters)

\* --------------------------------------- claims: scoring and aggregation
\* the rubric as the specification tabulates it
C6_Rubric(choice, key) ==
    IF key = 1
    THEN CASE choice = "A" -> 5 [] choice = "B" -> 4 [] choice = "C" -> 3
           [] choice = "D" -> 2 [] choice = "E" -> 1
    ELSE CASE choice = "A" -> 1 [] choice = "B" -> 2 [] choice = "C" -> 3
           [] choice = "D" -> 4 [] choice = "E" -> 5

\* the scores the rubric gives the results of one trait, in order; the choice
\* of a result is its parsed choice, or what the scanner reads as its choice
RECURSIVE C6_RubricScores(_, _, _)
C6_RubricScores(rs, code, scanner) ==
    IF rs = << >> THEN << >>
    ELSE LET r == Head(rs)
             choice == IF scanner THEN ScanChoice(r) ELSE r.parsed_choice
         IN (IF choice \in Letters /\ r.label_ocean = code
             THEN << C6_Rubric(choice, r.key) >> ELSE << >>)
            \o C6_RubricScores(Tail(rs), code, scanner)

\* C6: for every choice in A..E and every key the score is
\* {A:5,B:4,C:3,D:2,E:1}[choice] when key = 1 and 6 minus it for any other
\* key; a choice outside A..E has no score and contributes to no trait; every
\* defined score is in 1..5; A/key 1/trait E alone gives mean E = 5.0 and
\* A/key -1 gives 1.0. Both the Aggregator and the Scanner's score_item.
C6_ScoreFollowsRubric ==
    /\ aggregated # None =>
        LET agg == aggregated[1]
            entries(n) == { m \in 1..Len(agg.item_analysis) :
                              agg.item_analysis[m].index = n - 1 }
        IN /\ \A n \in 1..Len(results_data) :
                LET r == results_data[n]
                IN IF r.parsed_choice \in Letters
                   THEN /\ Cardinality(entries(n)) = 1
                        /\ \A m \in entries(n) :
                             /\ agg.item_analysis[m].final_score
                                   = C6_Rubric(r.parsed_choice, r.key)
                             /\ agg.item_analysis[m].final_score \in 1..5
                   ELSE entries(n) = {}
           /\ \A code \in CodeSet :
                agg.trait_summary[code].scores
                    = C6_RubricScores(results_data, code, FALSE)
           /\ \A k \in {1, -1} :
                results_data = << [parsed_choice |-> "A", response |-> "A",
                                   label_ocean |-> "E", key |-> k] >>
                => agg.trait_summary["E"].mean
                      = Num((IF k = 1 THEN 5 ELSE 1) * Scale)
    /\ scan_entry # None =>
        /\ \A code \in CodeSet :
             scan_entry[1].trait_totals[code]
                 = C6_RubricScores(results_data, code, TRUE)
        /\ \A n \in 1..Len(results_data) :
             LET sc == score_item(results_data[n])[2]
             IN sc # None => sc[1] \in 1..5

\* C6 witness: an aggregated and scanned record holding a reverse-keyed
\* letter and a choice outside A..E
C6_Witness ==
    /\ aggregated # None
    /\ scan_entry # None
    /\ \E n \in 1..Len(results_data) :
         results_data[n].parsed_choice \in Letters /\ results_data[n].key # 1
    /\ \E n \in 1..Len(results_data) : results_data[n].parsed_choice = "UNK"

\* a run record as the Runner writes it from a conforming endpoint: every
\* parsed choice is one of the five letters or the UNK sentinel
ConformingRecord ==
    \A n \in 1..Len(results_data) :
        results_data[n].parsed_choice \in Letters \cup {"UNK"}

\* C8: the row the Scanner rebuilds for a run record is identical to the row
\* the Orchestrator wrote for it: same per-trait means, same unknown/valid
\* accounting.
C8_ScannerRowEqualsOrchestratorRow ==
    (orch_row # None /\ scan_entry # None /\ ConformingRecord) =>
        LET row == orch_row[1]
            entry == scan_entry[1]
        IN /\ \A code \in CodeSet : entry.means[code] = row.means[code]
           /\ entry.total_responses - entry.valid_responses = row.unk_count
           /\ entry.total_responses > 0 =>
                Div(entry.valid_responses, entry.total_responses) = row.valid_rate

\* C9: a trait with zero validly scored items has mean (and std, min, max,
\* median) NaN, never 0, in aggregate_traits, in the Orchestrator's means and
\* in the Scanner's row.
C9_EmptyTraitIsNaN ==
    /\ aggregated # None =>
         \A code \in CodeSet :
            LET ts == aggregated[1].trait_summary[code]
            IN ts.n_items = 0 =>
                 (ts.mean.nan /\ ts.std.nan /\ ts.min.nan /\ ts.max.nan /\ ts.median.nan)
    /\ orch_row # None =>
         \A code \in CodeSet :
            aggregated[1].trait_summary[code].n_items = 0 => orch_row[1].means[code].nan
    /\ (scan_entry # None /\ ConformingRecord) =>
         \A code \in CodeSet :
            scan_entry[1].trait_totals[code] = << >> => scan_entry[1].means[code].nan

\* the standard deviations of the traits that have at least 2 scores
RECURSIVE C10_StdsOfTwoOrMore(_, _)
C10_StdsOfTwoOrMore(summary, codes) ==
    IF codes = << >> THEN << >>
    ELSE (IF summary[Head(codes)].n_items >= 2
          THEN << Stdev(summary[Head(codes)].scores) >> ELSE << >>)
         \o C10_StdsOfTwoOrMore(summary, Tail(codes))

\* C10: avg_within_trait_consistency is the mean of the per-trait standard
\* deviations over the traits with at least 2 scores only; a trait with one
\* score or none contributes nothing, and the metric is NaN when no trait
\* has 2 or more scores.
C10_ConsistencyOverTwoOrMore ==
    aggregated # None =>
        LET agg == aggregated[1]
            stds == C10_StdsOfTwoOrMore(agg.trait_summary, CODES)
        IN /\ TraitStds(agg.trait_summary) = stds
           /\ agg.quality_metrics.avg_within_trait_consistency
                 = (IF stds = << >> THEN NaN ELSE MeanF(stds))

\* ------------------------------------------- claims: the helper functions
\* the persona value given for a trait, under its code or its full name
C11_PersonaKeys(c) ==
    { k \in DOMAIN call_args.persona_data : k = c \/ Lower(k) = TRAIT_MAPPING[c] }

RECURSIVE C11_Sum(_, _)
C11_Sum(S, f) ==
    IF S = {} THEN 0
    ELSE LET c == CHOOSE d \in S : TRUE IN f[c] + C11_Sum(S \ {c}, f)

\* C11: compare_with_persona compares exactly the traits that have a defined
\* measured mean and a persona value, with signed error measured - target;
\* MAE is the mean of the absolute errors and RMSE the square root of the
\* mean squared error over those traits; the correlation is NaN when fewer
\* than two traits are compared, all three are NaN when none is, and the
\* call never raises.
C11_ComparisonDefinedAndTotal ==
    (call_fn = "compare_with_persona" /\ call_ret # None) =>
        LET out == call_ret[1]
            means == call_args.means
            both == { c \in CodeSet : ~means[c].nan /\ C11_PersonaKeys(c) # {} }
            target == [c \in both |->
                         call_args.persona_data[CHOOSE k \in C11_PersonaKeys(c) : TRUE]]
            err == [c \in both |-> means[c].v - target[c]]
            n == Cardinality(both)
            mean_sq == C11_Sum(both, [c \in both |-> err[c] * err[c]]) \div n
        IN /\ ~out.raises
           /\ DOMAIN out.trait_comparisons = both
           /\ out.traits_compared = n
           /\ \A c \in both : out.trait_comparisons[c].error = err[c]
           /\ n = 0 => /\ out.correlation.nan
                       /\ out.mean_absolute_error.nan
                       /\ out.root_mean_square_error.nan
           /\ n < 2 => out.correlation.nan
           /\ n >= 1 =>
                /\ out.mean_absolute_error =
                       Num(C11_Sum(both, [c \in both |-> Abs(err[c])]) \div n)
                /\ ~out.root_mean_square_error.nan
                /\ out.root_mean_square_error.v * out.root_mean_square_error.v <= mean_sq
                /\ mean_sq < (out.root_mean_square_error.v + 1)
                               * (out.root_mean_square_error.v + 1)

\* C12: when the persona values of the compared traits are all equal (the
\* NEUTRAL persona) or the measured means are all equal, the comparison
\* reports the correlation as NaN, not as a number.
C12_ZeroVarianceCorrelationIsNaN ==
    (call_fn = "compare_with_persona" /\ call_ret # None /\ ~call_ret[1].raises) =>
        LET cmp == call_ret[1].trait_comparisons
        IN (\/ \A c, d \in DOMAIN cmp : cmp[c].persona_value = cmp[d].persona_value
            \/ \A c, d \in DOMAIN cmp : cmp[c].measured_value = cmp[d].measured_value)
           => call_ret[1].correlation.nan

\* C13: aggregating the same RunArtifact twice yields identical per-trait
\* summaries, on the same aggregator instance or a fresh one, whatever other
\* artifacts were loaded or aggregated on the instance in between.
C13_AggregationIdempotent ==
    \A j, k \in 1..Len(agg_log) :
        agg_log[j].artifact = agg_log[k].artifact
            => agg_log[j].trait_summary = agg_log[k].trait_summary

\* an artifact aggregated, then another, then the first again while the
\* instance still holds the other as loaded
C13_Witness ==
    /\ Len(agg_log) = 3
    /\ agg_log[1].artifact = agg_log[3].artifact
    /\ agg_log[2].artifact # agg_log[1].artifact
    /\ agg_log[1].artifact # << >>
    /\ loaded = Some(agg_log[2].artifact)

\* ---------------------------------------------- claims: the Orchestrator
\* the lines this execution has put into summary.csv
LinesOfExecution ==
    SubSeq(summary_csv.lines, rows_at_open + 1, Len(summary_csv.lines))

\* C14: in every execution, for every (seed, order-seed) pair, the NEUTRAL
\* run of the pair is completed (artifact written, row appended) and its
\* means are cached before the run of any other condition with that pair
\* starts; every non-baseline combination that looks its baseline up finds it.
C14_BaselineBeforeConditions ==
    /\ (main_pc \in {"run", "aggregate", "row"} /\ CurCond # "NEUTRAL") =>
          LET neutral == Tag("NEUTRAL", CurSeed, CurOrderSeed)
          IN /\ neutral \in DOMAIN run_files
             /\ run_files[neutral].written_by = execution
             /\ CurKey \in DOMAIN baselines
             /\ baselines[CurKey] = run_files[neutral]
             /\ \E n \in 1..Len(LinesOfExecution) :
                   /\ LinesOfExecution[n].kind = "row"
                   /\ LinesOfExecution[n].results_path = neutral
    /\ \A k \in 1..Len(base_found) : base_found[k].found

\* a repeated execution has processed both order seeds of a non-baseline
\* condition and found the baseline each time
C14_Witness ==
    /\ execution = 2
    /\ Len(base_found) = 2
    /\ base_found[1].found /\ base_found[2].found
    /\ base_found[1].tag # base_found[2].tag

\* the means and the baseline of the worked example: baseline all 3.0,
\* measured O 3.1, C 2.9, E 4.4, A 3.0, N 3.05
C15_ExampleMeans ==
    ("O" :> Num(3100)) @@ ("C" :> Num(2900)) @@ ("E" :> Num(4400))
    @@ ("A" :> Num(3 * Scale)) @@ ("N" :> Num(3050))

C15_ExampleBase == Some([code \in CodeSet |-> Num(3 * Scale)])

\* C15: for a condition with target trait t, the leakage of the row is the
\* mean of |measured[c] - baseline[c]| over exactly the codes c # t whose
\* values are defined in both (0.0625 in the worked example with target E);
\* it is null when the condition has no target trait or no baseline is cached.
C15_LeakageOverNonTargetCodes ==
    (call_fn = "compute_leakage" /\ call_ret # None) =>
        LET leakage == call_ret[1].leakage
            means == call_args.means
            base == call_args.base
            target == CONDITIONS[call_args.cond].target
        IN /\ target = None => leakage = None
           /\ base = None => leakage = None
           /\ (target # None /\ base # None) =>
                 LET both == { c \in CodeSet \ {target[1]} :
                                 ~means[c].nan /\ ~base[1][c].nan }
                     total == C11_Sum(both, [c \in both |->
                                               Abs(means[c].v - base[1][c].v)])
                 IN both # {} =>
                       leakage = Some(Num((total * Scale) \div Cardinality(both)))
           /\ (means = C15_ExampleMeans /\ base = C15_ExampleBase
                 /\ target = Some("E")) => leakage = Some(Num(62500))

\* the worked example has been computed for a condition with target E
C15_Witness ==
    /\ call_fn = "compute_leakage"
    /\ call_ret # None
    /\ call_args.cond = "E_HIGH"
    /\ call_args.means = C15_ExampleMeans
    /\ call_args.base = C15_ExampleBase
    /\ call_ret[1].leakage = Some(Num(62500))

\* the fit is defined: two or more points, x not all equal, no NaN among y
C16_FitDefined ==
    /\ Len(call_args.x) >= 2
    /\ \E j, k \in 1..Len(call_args.x) : call_args.x[j] # call_args.x[k]
    /\ \A k \in 1..Len(call_args.y) : ~call_args.y[k].nan

C16_MeanY ==
    SumSeq([k \in 1..Len(call_args.y) |-> call_args.y[k].v]) \div Len(call_args.y)

\* SS_tot of the measured values
C16_SSTot ==
    SumSq([k \in 1..Len(call_args.y) |-> call_args.y[k].v - C16_MeanY])

\* SS_res of the line through the point of means with the returned slope
C16_SSRes ==
    LET x == call_args.x
        mx == SumSeq(x) \div Len(x)
    IN SumSq([k \in 1..Len(x) |->
                call_args.y[k].v
                - ((call_ret[1].slope.v * (x[k] - mx)) \div Scale + C16_MeanY)])

\* the returned slope is the least-squares slope Sxy / Sxx, rounded down to
\* the resolution of the model
C16_SlopeIsLeastSquares ==
    LET x == call_args.x
        n == Len(x)
        ys == [k \in 1..n |-> call_args.y[k].v]
        sxx == (n * SumSq(x) - SumSeq(x) * SumSeq(x)) \div (Scale * Scale)
        sxy == (n * SumXY(x, ys) - SumSeq(x) * SumSeq(ys)) \div Scale
        slope == call_ret[1].slope
    IN /\ ~slope.nan
       /\ slope.v * sxx <= sxy
       /\ sxy < (slope.v + 1) * sxx

C17_PerCondition == Len(MatrixSeeds) * Len(ORDER_SEEDS)

C17_Combination(n) ==
    Tag(MatrixConditions[(n - 1) \div C17_PerCondition + 1],
        MatrixSeeds[((n - 1) % C17_PerCondition) \div Len(ORDER_SEEDS) + 1],
        ORDER_SEEDS[((n - 1) % Len(ORDER_SEEDS)) + 1])

\* the combinations whose loop iteration this execution has finished
C17_Completed ==
    (cond_i - 1) * C17_PerCondition + (seed_i - 1) * Len(ORDER_SEEDS) + (order_i - 1)

C17_RowsOfExecution == SelectSeq(LinesOfExecution, LAMBDA l : l.kind = "row")

\* C17: at every point of an execution, and after an interruption at any
\* point, the rows the execution has appended and flushed are exactly the
\* rows of the combinations it has fully processed, in processing order,
\* each referring to an artifact file that exists.
C17_RowsAreCompletedCombinations ==
    execution >= 1 =>
        /\ Len(C17_RowsOfExecution) = C17_Completed
        /\ \A n \in 1..Len(C17_RowsOfExecution) :
              /\ C17_RowsOfExecution[n].results_path = C17_Combination(n)
              /\ C17_RowsOfExecution[n].results_path \in DOMAIN run_files

\* a repeated execution killed after the Runner wrote the artifact of its
\* third combination: two rows, three artifacts of this execution
C17_Witness ==
    /\ main_pc = "killed"
    /\ execution = 2
    /\ C17_Completed = 2
    /\ Len(C17_RowsOfExecution) = 2
    /\ C17_Combination(3) \in DOMAIN run_files
    /\ run_files[C17_Combination(3)].written_by = 2

\* C18: when the run of a combination fails (the Runner exits nonzero, or
\* aggregation or reporting of its artifact raises), the Orchestrator
\* records the combination in the summary and goes on with the remaining
\* combinations: a failed combination never stops the matrix.
C18_FailureDoesNotStopMatrix ==
    \A k \in 1..Len(failed) :
        /\ main_pc # "crashed"
        /\ \E n \in 1..Len(C17_RowsOfExecution) :
              C17_RowsOfExecution[n].results_path = failed[k]

C19_Rows == SelectSeq(summary_csv.lines, LAMBDA l : l.kind = "row")

C19_KeyOf(row) == << row.condition, row.seed, row.order_seed >>

\* C19: after any number of executions against the same runs directory the
\* summary table has exactly one row for each completed (condition, seed,
\* order-seed) combination, and never two rows with the same key (stated
\* for executions that ran to completion).
C19_OneRowPerCombination ==
    main_pc = "finished" =>
        /\ \A j, k \in 1..Len(C19_Rows) :
              j # k => C19_KeyOf(C19_Rows[j]) # C19_KeyOf(C19_Rows[k])
        /\ \A n \in 1..C17_Completed :
              \E k \in 1..Len(C19_Rows) : C19_Rows[k].results_path = C17_Combination(n)

\* C20: once the RunArtifact file of a combination has been written, no
\* later step (another Runner invocation, a repeated execution of the
\* Orchestrator, the Aggregator) overwrites or modifies it.
C20_ArtifactWrittenOnce ==
    [][\A t \in DOMAIN run_files :
          t \in DOMAIN run_files' /\ run_files'[t] = run_files[t]]_vars

\* ------------------------------------------- claims: the Runner, continued
\* bijections of 1..n
Bijections(n) ==
    { p \in [1..n -> 1..n] : \A a, b \in 1..n : p[a] = p[b] => a = b }

\* C25: the sequence of items run_assessment processes is a permutation of
\* the inventory fixed by the inventory and the item-order-seed alone (the
\* order the generator seeded with it yields), it is the source order when no
\* item-order-seed is given, the loop takes the items in that sequence, and
\* the caller's inventory list is never changed.
C25_OrderIsSeededPermutation ==
    /\ [](pc \in {"loop", "post", "done"} =>
            /\ Len(items) = Len(inventory)
            /\ \E p \in Bijections(Len(inventory)) :
                  \A k \in 1..Len(inventory) : items[k] = inventory[p[k]]
            /\ item_order_seed = None => items = inventory
            /\ item_order_seed # None =>
                  \A k \in 1..Len(inventory) :
                      items[k] =
                        inventory[ShuffleOrder[item_order_seed[1]][Len(inventory) + 1][k]]
            /\ \A k \in 1..Len(visited) : visited[k] = k)
    /\ [][inventory' = inventory /\ item_order_seed' = item_order_seed]_vars
    /\ [][pc # "start" => items' = items]_vars

\* C25 witness: a returned run whose seeded order differs from the source
\* order, next to the caller's list still in source order
C25_Witness ==
    /\ pc = "done"
    /\ item_order_seed # None
    /\ Len(inventory) = 2
    /\ items # inventory
    /\ items = << inventory[2], inventory[1] >>
    /\ Len(visited) = 2

\* C27: the attempts field of every recorded result equals the number of
\* requests run_assessment issued for that item (1 or 2), whatever the
\* endpoint's outcomes were, an error on the first request followed by a
\* success on the second included.
C27_AttemptsEqualsRequests ==
    \A n \in 1..Len(results) :
        /\ results[n].attempts \in {1, 2}
        /\ results[n].attempts = requests[results[n].item_index + 1]

\* C28: when run_assessment has returned, each item is counted in exactly
\* one outcome counter: successful + unknown + errors = total_items, with
\* successful + unknown = len(results) and retried <= total_items.
C28_EachItemCountedOnce ==
    pc = "done" =>
        /\ stats.successful + stats.unknown + stats.errors = stats.total_items
        /\ stats.successful + stats.unknown = Len(results)
        /\ stats.retried <= stats.total_items

\* ------------------------------------ claims: the Orchestrator, continued
\* C26: while main runs, aggregates or records a combination of a condition,
\* the persona requests of that condition completed in the order create,
\* update of each of the five traits, read-back; none of the create and
\* update requests failed; and the vector read back equals the condition's
\* configured trait values; every row this execution recorded carries the
\* configured vector of its condition.
C26_RunOnlyAfterVerifiedPersona ==
    /\ main_pc \in {"run", "aggregate", "row"} =>
          /\ persona_log = << "create" >> \o ConfTraits \o << "get" >>
          /\ ~rejected
          /\ persona = Some(PersonaOf(CurCond))
    /\ \A n \in (rows_at_open + 1)..Len(summary_csv.lines) :
          summary_csv.lines[n].kind = "row" =>
              summary_csv.lines[n].persona_vec = PersonaOf(summary_csv.lines[n].condition)

\* ------------------------------------------ claims: the validation command
\* the result main printed for the gate at index n
GateRan(n) == Len(reported) >= n

\* the summary table the command was run on
CheckTable == runs_dir.summary[1]

\* C21: for a sensitivity artifact in the format main of run_all.py writes
\* ({target_trait, pairs, slope, r2}), the sensitivity gate passes if and
\* only if the artifact's R2 is at least 0.85 and |slope - 1.0| is at most
\* 0.25; when the artifact file is missing it fails without raising.
C21_SensitivityGateOnWrittenArtifact ==
    GateRan(3) =>
        /\ runs_dir.sensitivity = None =>
              (~reported[3].passed /\ ~reported[3].raised)
        /\ (runs_dir.sensitivity # None /\ "r2" \in DOMAIN runs_dir.sensitivity[1]) =>
              LET r2 == runs_dir.sensitivity[1]["r2"]
                  slope == runs_dir.sensitivity[1]["slope"]
              IN /\ ~reported[3].raised
                 /\ reported[3].passed <=>
                       /\ ~r2.nan /\ r2.v >= THRESHOLDS.sensitivity_r2_min
                       /\ ~slope.nan
                       /\ Abs(slope.v - Scale) <= THRESHOLDS.sensitivity_slope_tolerance

\* unknown results / total results of a run is above the ceiling
C22_AboveCeiling(run) ==
    run.total > 0 /\ run.unknown * Scale > THRESHOLDS.unk_rate_max * run.total

\* C22: the unknown-rate gate fails if and only if some run of the summary
\* table has an unknown-response rate above 0.02, for the table the
\* Orchestrator wrote as well as for the one the Scanner rebuilt.
C22_UnkGateFailsIffRunAboveCeiling ==
    (GateRan(2) /\ CheckTable.writer \in {"orchestrator", "scanner"}) =>
        /\ ~reported[2].raised
        /\ ~reported[2].passed <=>
              \E n \in 1..Len(CheckTable.runs) : C22_AboveCeiling(CheckTable.runs[n])

\* the E means of the rows of a condition, and the conditions of the
\* gradient that have rows, in the expected order
C23_Means(c) ==
    LET idx == { n \in 1..Len(check_data) : check_data[n].condition = c }
        ordered == SelectSeq([n \in 1..Len(check_data) |-> n], LAMBDA n : n \in idx)
    IN [k \in 1..Len(ordered) |-> check_data[ordered[k]].cells["E_mean"].val]

C23_Available == SelectSeq(ExpectedOrder, LAMBDA c : C23_Means(c) # << >>)

\* the mean of a later condition exceeds the one of an earlier condition by
\* more than the tolerance (a NaN mean exceeds nothing)
C23_Exceeds(later, earlier) ==
    LET a == C23_Means(later)
        b == C23_Means(earlier)
    IN /\ \A n \in 1..Len(a) : ~a[n].nan
       /\ \A n \in 1..Len(b) : ~b[n].nan
       /\ MeanF(a).v > MeanF(b).v + THRESHOLDS.monotonicity_tolerance

\* C23: with the per-condition E means taken over the summary rows of E_20,
\* E_30, E_40 and E_50, check_monotonicity fails if and only if some
\* later-ordered available condition's mean does not exceed an earlier
\* available one's by more than 0.05; it passes when fewer than 2 of the
\* four conditions have data.
C23_MonotonicityGate ==
    (GateRan(1) /\ CheckTable.writer \in {"orchestrator", "scanner"}) =>
        /\ ~reported[1].raised
        /\ Len(C23_Available) < 2 => reported[1].passed
        /\ ~reported[1].passed <=>
              \E j \in 1..Len(C23_Available) : \E k \in 1..(j - 1) :
                  ~C23_Exceeds(C23_Available[j], C23_Available[k])

\* the prerequisites of the validation command are there
C24_Prerequisites ==
    /\ runs_dir.exists
    /\ runs_dir.summary # None
    /\ runs_dir.summary[1].rows # << >>

\* C24: the validation command evaluates and reports all three gates in
\* order (monotonicity, unknown-rate, sensitivity) even when an earlier gate
\* failed or raised, and only then gives the verdict: exit code 0 if and
\* only if all three gates passed, exit code 1 if a gate failed or if the
\* runs directory or the summary table is missing or empty; and it always
\* gets to its verdict.
C24_AllGatesThenVerdict ==
    /\ [](\A n \in 1..Len(reported) :
            /\ n <= Len(CheckNames)
            /\ reported[n].check = CheckNames[n])
    /\ [](exit_code # None =>
            /\ check_pc = "exited"
            /\ exit_code \in {Some(0), Some(1)}
            /\ C24_Prerequisites => Len(reported) = Len(CheckNames)
            /\ ~C24_Prerequisites => exit_code = Some(1)
            /\ exit_code = Some(0) <=>
                  /\ C24_Prerequisites
                  /\ \A n \in 1..Len(reported) : reported[n].passed /\ ~reported[n].raised)
    /\ [][exit_code # None => UNCHANGED << reported, exit_code >>]_vars
    /\ <>(exit_code # None)

\* C24 witness: the command has exited with 1 after the first gate raised,
\* the second failed and the third was still run and passed
C24_Witness ==
    /\ exit_code = Some(1)
    /\ Len(reported) = 3
    /\ reported[1].raised
    /\ ~reported[2].passed /\ ~reported[2].raised
    /\ reported[3].passed

\* ------------------------------------------- claims: the Aggregator, continued
\* C30: for every run record, the empty one and the all-unknown one included,
\* aggregate_traits followed by generate_report (with its compare_with_persona)
\* completes without raising, and every statistic of a trait without valid
\* scores is NaN.
C30_AggregateReportCompareNeverRaises ==
    /\ orch_pc # "crashed"
    /\ aggregated # None =>
         \A code \in CodeSet :
            LET ts == aggregated[1].trait_summary[code]
            IN ts.n_items = 0 =>
                 (ts.mean.nan /\ ts.std.nan /\ ts.min.nan /\ ts.max.nan /\ ts.median.nan)

\* ----------------------------------------------- claims: the summary table
\* C29: whenever no execution is under way, after any sequence of executions
\* of the Orchestrator and the Summary Scanner, a summary table that has
\* lines has exactly one header line, its first, and every row under it has
\* the columns of that header in the same order.
C29_OneHeaderAndRowsOfItsColumns ==
    (main_pc \notin Running /\ summary_csv.lines # << >>) =>
        /\ summary_csv.lines[1].kind = "header"
        /\ \A n \in 2..Len(summary_csv.lines) :
              /\ summary_csv.lines[n].kind = "row"
              /\ summary_csv.lines[n].columns = summary_csv.lines[1].columns
====
